---------------------------- MODULE Spec2Model ----------------------------
(***************************************************************************)
(* Turn-taking and audio coordination of the Wailo assistant               *)
(* (Waylo_AI/AI_Chat.py and Waylo_AI/AI_Chat_alerts.py).                   *)
(*                                                                         *)
(* The module holds several specifications over one set of variables:      *)
(*   SpecSpeak  one streaming_speak call in byte-level detail; a signal    *)
(*              may set STOP_EVENT beside it;                              *)
(*   SpecPrebuffer  that call with two scripted deliveries of the audio;   *)
(*   SpecSignal the signal handler and its grace window beside one         *)
(*              streaming_speak call;                                      *)
(*   SpecWarn   one _warn_after deadline watcher and its environment;      *)
(*   Spec       the turn loop of AI_Chat.main with its playback threads;   *)
(*   SpecTurn   one turn of that loop under a parental gate that opens and *)
(*              closes and two settings of the wait for playback;          *)
(*   SpecAlerts the turn loop of AI_Chat_alerts.main with its watchers;    *)
(*   SpecNet    the network monitors of either entry point;                *)
(*   SpecRecord one call of record() frame by frame, on its own or as the  *)
(*              first capture of AI_Chat.main;                             *)
(*   SpecListen the main thread of AI_Chat.main over several captures;     *)
(*   SpecDeadline  how streaming_speak sizes the deadline of its stream;   *)
(*   SpecMicReady  the first capture beside its mic_ready_worker;          *)
(*   SpecApi    calls of _get and _post on one WailoAPI object             *)
(*              (Waylo_AI/wailo_api.py);                                   *)
(*   SpecBle    token transfers to the GATT server                         *)
(*              (Waylo_AI/wailo_gatt_server.py).                           *)
(***************************************************************************)
EXTENDS Integers, Sequences, FiniteSets, TLC

(***************************************************************************)
(* IEEE-754 binary64 arithmetic, as far as the wait loops use it.          *)
(* Every wait loop of the program is                                       *)
(*     waited = 0.0                                                        *)
(*     while ... and waited < bound:  time.sleep(0.05); waited += 0.05     *)
(* on Python floats.  A non-negative double is [e, h, l]: its 53-bit       *)
(* significand is h * 2^27 + l (h holds the upper 26 bits, leading bit     *)
(* included, l the lower 27) and its value is (h * 2^27 + l) * 2^(e-52).   *)
(* Zero has h = l = 0.  The two limbs keep every intermediate value within *)
(* 32 bits.                                                                *)
(***************************************************************************)
LimbBits == 27

Limb == 2 ^ LimbBits

\* 2^26: one past the largest upper limb of a normalised significand
HiTop == 2 ^ (LimbBits - 1)

FZero == [e |-> 0, h |-> 0, l |-> 0]

FIsZero(a) == a.h = 0 /\ a.l = 0

\* the double of a small positive integer literal (3.0, 10.0, ...)
FInt(k) ==
    LET e == CHOOSE x \in 0..25 : 2 ^ x <= k /\ k < 2 ^ (x + 1)
    IN  [e |-> e, h |-> k * 2 ^ (25 - e), l |-> 0]

\* the significand <<h, l>> shifted right by d bits: the shifted limbs, the
\* first bit shifted out (g) and whether any later bit shifted out is set (s)
FShift(h, l, d) ==
    IF d = 0 THEN [h |-> h, l |-> l, g |-> 0, s |-> FALSE]
    ELSE IF d <= LimbBits
        THEN [h |-> h \div 2 ^ d,
              l |-> (l \div 2 ^ d) + (h % 2 ^ d) * 2 ^ (LimbBits - d),
              g |-> (l \div 2 ^ (d - 1)) % 2,
              s |-> (l % 2 ^ (d - 1)) # 0]
    ELSE [h |-> 0,
          l |-> h \div 2 ^ (d - LimbBits),
          g |-> (h \div 2 ^ (d - LimbBits - 1)) % 2,
          s |-> (h % 2 ^ (d - LimbBits - 1)) # 0 \/ l # 0]

\* round to nearest, ties to even: <<h, l>> is the significand kept, g and s
\* describe what was cut off
FRound(e, h, l, g, s) ==
    IF ~(g = 1 /\ (s \/ l % 2 = 1)) THEN [e |-> e, h |-> h, l |-> l]
    ELSE IF l + 1 < Limb THEN [e |-> e, h |-> h, l |-> l + 1]
    ELSE IF h + 1 < HiTop THEN [e |-> e, h |-> h + 1, l |-> 0]
    ELSE [e |-> e + 1, h |-> HiTop \div 2, l |-> 0]

\* a + b on doubles (both non-negative), as Python's float addition
FAdd(a, b) ==
    IF FIsZero(a) THEN b
    ELSE IF FIsZero(b) THEN a
    ELSE LET hi == IF a.e >= b.e THEN a ELSE b
             lo == IF a.e >= b.e THEN b ELSE a
             d  == hi.e - lo.e
         IN  IF d > 2 * LimbBits - 1 THEN hi
             ELSE LET q  == FShift(lo.h, lo.l, d)
                      sl == hi.l + q.l
                      sh == hi.h + q.h + sl \div Limb
                      l0 == sl % Limb
                  IN  IF sh < HiTop THEN FRound(hi.e, sh, l0, q.g, q.s)
                      ELSE FRound(hi.e + 1, sh \div 2,
                                  (l0 \div 2) + (sh % 2) * (Limb \div 2),
                                  l0 % 2, q.g = 1 \/ q.s)

\* a < b on doubles (both non-negative)
FLess(a, b) ==
    IF FIsZero(b) THEN FALSE
    ELSE IF FIsZero(a) THEN TRUE
    ELSE IF a.e # b.e THEN a.e < b.e
    ELSE IF a.h # b.h THEN a.h < b.h
    ELSE a.l < b.l

\* half a limb, by which a limb is split before it is multiplied
HalfBits == 13

Half == 2 ^ HalfBits

\* n * a for an int 0 <= n < 64 and a double a, as Python's int * float: the
\* exact product <<t, h, l>> of n and the significand (t above the limbs, h
\* and l full limbs), cut back to 53 bits and rounded once
FMulInt(n, a) ==
    IF n = 0 \/ FIsZero(a) THEN FZero
    ELSE LET c0 == n * (a.l % Half)
             c1 == n * (a.l \div Half)
             sl == (c1 % (2 * Half)) * Half + c0
             l  == sl % Limb
             d0 == n * (a.h % Half)
             d1 == n * (a.h \div Half)
             sh == (d1 % (2 * Half)) * Half + d0 + sl \div Limb + c1 \div (2 * Half)
             h  == sh % Limb
             t  == sh \div Limb + d1 \div (2 * Half)
             k  == IF t = 0 THEN (IF h < HiTop THEN 0 ELSE 1)
                   ELSE 1 + (CHOOSE x \in 1..6 : 2 ^ (x - 1) <= t /\ t < 2 ^ x)
             q  == FShift(h, l, k)
         IN  FRound(a.e + k, q.h + t * 2 ^ (LimbBits - k), q.l, q.g, q.s)

\* the literal 0.03 = 0x3F9EB851EB851EB8: significand 0x1EB851EB851EB8, exponent -6
F0_03 == [e |-> -6, h |-> 64424509, l |-> 59055800]

\* the literal 0.06, twice that
F0_06 == [e |-> -5, h |-> 64424509, l |-> 59055800]

\* the literal 0.8 = 0x3FE999999999999A
F0_8 == [e |-> -1, h |-> 53687091, l |-> 26843546]

\* the literal 0.9 = 0x3FECCCCCCCCCCCCD
F0_9 == [e |-> -1, h |-> 60397977, l |-> 80530637]

\* the literal 0.05 = 0x3FA999999999999A: significand 0x1999999999999A, exponent -5
F0_05 == [e |-> -5, h |-> 53687091, l |-> 26843546]

\* the literal 3.0
F3_0 == FInt(3)

\* the literal 0.4 = 0x3FD999999999999A
F0_4 == [e |-> -2, h |-> 53687091, l |-> 26843546]

(***************************************************************************)
(* State.                                                                  *)
(***************************************************************************)
VARIABLES
    \* process-wide events (AI_Chat.py 58-59)
    STOP_EVENT,       \* threading.Event: a stop signal was received
    ACTIVE_TTS,       \* threading.Event: set by streaming_speak while it runs
    \* one streaming_speak call in detail (AI_Chat.py 516-641)
    spc,              \* where the call is
    prebufferMs,      \* PREBUFFER_MS, read from the environment at import
    speakInMain,      \* the call runs on the main thread (intro of the alerts
                      \* entry point, farewell) and not on a worker thread
    spokenDone,       \* spoken["done"] of the speak_worker that made the call
    chunkSizes,       \* the sizes of rsp.audio_content the stream of the call may deliver
    buffer,           \* len(buffer): bytes received and not yet handed to write
    received,         \* bytes appended to buffer so far
    started,          \* the local `started`
    nchunks,          \* responses taken from rsp_iter so far
    chunkLimit,       \* responses the synthesis stream delivers at most
    written,          \* bytes the device accepted
    dropped,          \* bytes taken from buffer whose write raised
    streamEnd,        \* how the response loop was left
    outcome,          \* how the call ended
    stopWrites,       \* out.write calls issued while STOP_EVENT was set
    stopPhase,        \* spc when STOP_EVENT was set
    \* _handle_signal (AI_Chat.py 64-83)
    hpc,              \* where the handler is
    hwaited,          \* its local `waited`, a double
    hpolls,           \* sleeps of 50 ms it has made
    exited,           \* sys.exit has ended the process
    \* _warn_after watchers (AI_Chat.py 188-196), one thread each
    wpc,              \* where each watcher thread is
    wdelay,           \* its delay_sec, a double
    wwaited,          \* its local `waited`, a double
    wcancel,          \* its cancel_event
    wemitted,         \* _alert calls it has made
    wexpiry,          \* how its wait loop ended: "clean" when the delay ran
                      \* out with neither event set, "cut" otherwise
    wobserved,        \* it has read one of the two events as set
    alertBeeps,       \* ALERT_BEEPS, read from the environment at import
    \* main (AI_Chat.py 713-837) and the threads it starts
    mpc,              \* where the main thread is
    turn,             \* iterations of the loop that reached record()
    turnLimit,        \* iterations the run is followed for
    sess,             \* the streaming_speak calls: 0 the intro, t the reply of
                      \* turn t, the last one the farewell
    recording,        \* record() holds the input stream open
    cwaited,          \* the local `waited` of the wait for playback, a double
    utterExit,        \* the utterance of this turn is an exit keyword
    firstMicAttempt,  \* the local first_mic_attempt
    noSpeechStreak,   \* main.no_speech_streak (0 while unset)
    rpc,              \* where the mic_ready_worker thread of each turn is
    micCancel,        \* mic_ready_cancel of each turn
    listenAfterTts,   \* LISTEN_AFTER_TTS, read from the environment at import
    listenWait,       \* LISTEN_WAIT_SEC, likewise, a double
    exitOnNoMic,      \* EXIT_ON_NO_MIC, likewise
    \* AI_Chat_alerts.main (AI_Chat_alerts.py 104-213) and warn_if_slow (94-101)
    apc,              \* where the main thread of the alerts entry point is
    now,              \* time.time(), in seconds since main was entered
    swpc,             \* where each warn_if_slow worker thread is
    swstart,          \* its start_ts
    swemitted,        \* it has called speak_or_beep
    swactive,         \* ACTIVE_TTS as it was when it called speak_or_beep
    doneAt,           \* when the call it watches returned (-1: not yet)
    \* the network monitors (AI_Chat.py 198-217, AI_Chat_alerts.py 68-91)
    netUp,            \* what net_up() returns at this instant
    flips,            \* changes of netUp so far
    npc,              \* where each monitor thread is
    nlast,            \* its local last_online
    nsince,           \* its local offline_since (-1: None)
    nwake,            \* when its time.sleep(1.0) is over
    nfirst,           \* when the run of failed probes it is in began (-1: none)
    nannounced,       \* it has announced "offline" in that run
    nearly,           \* it has announced "offline" before the threshold
    nmissed,          \* a failed probe past the threshold left the run unannounced
    offAlerts,        \* "offline" alerts of the process in the present outage
    backAlerts,       \* "back online" alerts of the process since the last recovery
    \* record() (AI_Chat.py 393-447)
    rec,              \* the call of record() in progress: its arguments and locals
    \* what the captures of main came to (AI_Chat.py 770-788)
    lastRaw,          \* what the last record() of main gave: "bytes", "None", "error"
    emptyRun,         \* captures without speech since the last one with speech
    louder,           \* the last capture made main ask the user to speak louder
    \* what main did in the turn it is in (AI_Chat.py 754-837)
    calls,            \* the calls main has started since the head of the loop, in order
    utter,            \* what transcribe returned, as a sequence of tokens
    reply,            \* what chat_gpt returned for it
    quiet,            \* what silenced() returns (the parental gate and the time)
    gated,            \* main found the gate active when it last tested it
    \* the deadline of a streaming_speak call (AI_Chat.py 516-523, 570-577)
    dpc,              \* where the call is on its way to the deadline
    originalLen,      \* len(original_text), the text the caller passed
    textLen,          \* len(text) once sanitize_tts_text has been through it
    ttsTimeoutEnv,    \* WAILO_TTS_TIMEOUT_SEC as os.getenv returns it
    ttsTimeout,       \* tts_timeout, in ninths of a second (-1: not set yet)
    \* the opening of the microphone (AI_Chat.py 62, 413-419)
    MIC_OPENED_EVENT, \* the event of that name
    micOpenTook,      \* how long sd.InputStream takes to open, in frames of 30 ms
    \* one WailoAPI object and the call of _get or _post in progress
    \* (wailo_api.py 64-290)
    qpc,              \* where that call is
    qkind,            \* "get" or "post"
    token,            \* bearer_token and token_expires_at: "none", "valid", "expired"
    auth_failed,      \* self.auth_failed
    hasCreds,         \* self.email and self.password are set
    sent,             \* requests for the target the call has sent
    reauthOk,         \* the authenticate() of the 401 branch of the call returned True
    status,           \* r, the response the call holds
    result,           \* what the call returned ("raised": an exception left it)
    ncalls,           \* calls finished
    authAfterFailed,  \* authenticate() was entered with auth_failed set
    \* the token characteristic of the GATT server and the client that writes
    \* to it (wailo_gatt_server.py 450-697)
    bpc,              \* the server: "serving", or "exited" after cleanup_and_exit
    xfer,             \* the transfer the client is making: header, N, EOF marker
    xpos,             \* the writes of that transfer made so far (-1: no transfer)
    nxfers,           \* transfers the client has finished
    total_chunks,     \* self.total_chunks (-1: None)
    received_chunks,  \* self.received_chunks
    runs,             \* runs of process_complete_token since the transfer began
    complete_token,   \* the complete_token of the last run, as its chunks
    HANDOFF_COMPLETED, \* the global of that name
    exitTimer         \* a Timer for cleanup_and_exit is running

flagVars  == <<STOP_EVENT, ACTIVE_TTS>>
speakVars == <<spc, prebufferMs, chunkSizes, speakInMain, spokenDone,
               buffer, received, started, nchunks,
               chunkLimit, written, dropped, streamEnd, outcome, stopWrites, stopPhase>>
sigVars   == <<hpc, hwaited, hpolls, exited>>
warnVars  == <<wpc, wdelay, wwaited, wcancel, wemitted, wexpiry, wobserved, alertBeeps>>

cfgVars   == <<turnLimit, listenAfterTts, listenWait, exitOnNoMic>>
mainVars  == <<mpc, turn, sess, recording, cwaited, utterExit, firstMicAttempt,
               noSpeechStreak, rpc, micCancel, cfgVars>>

\* the state of the turn loop and its threads
alertVars == <<apc, now, swpc, swstart, swemitted, swactive, doneAt>>
netVars   == <<netUp, flips, npc, nlast, nsince, nwake, nfirst, nannounced,
               nearly, nmissed, offAlerts, backAlerts>>

\* the state of the parts that the turn loops leave alone
recVars   == <<rec>>

histVars  == <<lastRaw, emptyRun, louder>>

turnVars  == <<calls, utter, reply, quiet, gated>>

\* the state of the calls that are followed on their own
deadVars  == <<dpc, originalLen, textLen, ttsTimeoutEnv, ttsTimeout>>

micVars   == <<MIC_OPENED_EVENT, micOpenTook>>

apiVars   == <<qpc, qkind, token, auth_failed, hasCreds, sent, reauthOk,
               status, result, ncalls, authAfterFailed>>

bleVars   == <<bpc, xfer, xpos, nxfers, total_chunks, received_chunks, runs,
               complete_token, HANDOFF_COMPLETED, exitTimer>>

libVars   == <<deadVars, micVars, apiVars, bleVars>>

extVars   == <<netVars, recVars, libVars, histVars, turnVars>>

loopVars  == <<warnVars, mainVars, alertVars, extVars>>

vars == <<flagVars, speakVars, sigVars, loopVars>>

(***************************************************************************)
(* streaming_speak, one call (AI_Chat.py 516-641).                         *)
(***************************************************************************)
STREAM_RATE == 24000

FRAMES_PER_BUF == 2048

\* values of WAILO_TTS_PREBUFFER_MS the model runs with (80 is the default)
PrebufferMsChoices == {80, 200}

\* sizes in bytes of rsp.audio_content the synthesis stream may deliver
ChunkSizes == {0, 1, 3839, 8200}

\* responses one stream delivers at most, in SpecSpeak and in SpecSignal
MaxChunks == 2

MaxSigChunks == 1

\* prebuffer_bytes_needed = int(PREBUFFER_MS * STREAM_RATE * 2 / 1000)
PrebufferBytes(ms) == (ms * STREAM_RATE * 2) \div 1000

\* chunk_bytes = FRAMES_PER_BUF * 2
ChunkBytes == FRAMES_PER_BUF * 2

Min(a, b) == IF a <= b THEN a ELSE b

\* the thread running the call is scheduled: the process is alive, and a call
\* on the main thread is suspended while the signal handler runs on top of it
SpeakRuns == ~exited /\ (speakInMain => hpc = "none")

SpeakInit ==
    /\ spc = "entry"
    /\ prebufferMs \in PrebufferMsChoices
    /\ chunkSizes = ChunkSizes
    /\ speakInMain \in BOOLEAN
    /\ spokenDone = FALSE
    /\ buffer = 0
    /\ received = 0
    /\ started = FALSE
    /\ nchunks = 0
    /\ written = 0
    /\ dropped = 0
    /\ streamEnd = "open"
    /\ outcome = "none"
    /\ stopWrites = 0
    /\ stopPhase = "none"

\* SpeakOpen without the try of 551-563: a failure leaves the call by an
\* exception
SpeakOpenUncaught ==
    /\ SpeakRuns
    /\ spc = "entry"
    /\ \/ spc' = "opened" /\ UNCHANGED outcome
       \/ spc' = "raised" /\ outcome' = "deviceerror"
    /\ UNCHANGED <<prebufferMs, chunkSizes, speakInMain, spokenDone,
                   buffer, received, started, nchunks,
                   chunkLimit, written, dropped, streamEnd, stopWrites, stopPhase>>
    /\ UNCHANGED <<flagVars, sigVars, loopVars>>

\* 551-563: open and start the output stream; on failure log and return
SpeakOpen ==
    /\ SpeakRuns
    /\ spc = "entry"
    /\ \/ spc' = "opened" /\ UNCHANGED outcome
       \/ spc' = "done" /\ outcome' = "deviceerror"
    /\ UNCHANGED <<prebufferMs, chunkSizes, speakInMain, spokenDone,
                   buffer, received, started, nchunks,
                   chunkLimit, written, dropped, streamEnd, stopWrites, stopPhase>>
    /\ UNCHANGED <<flagVars, sigVars, loopVars>>

\* 579-582: ACTIVE_TTS.set(), then the streaming_synthesize call
SpeakBegin ==
    /\ SpeakRuns
    /\ spc = "opened"
    /\ ACTIVE_TTS' = TRUE
    /\ spc' = "next"
    /\ UNCHANGED <<prebufferMs, chunkSizes, speakInMain, spokenDone,
                   buffer, received, started, nchunks,
                   chunkLimit, written, dropped, streamEnd, outcome, stopWrites, stopPhase>>
    /\ UNCHANGED <<STOP_EVENT, sigVars, loopVars>>

\* SpeakChunk without the prebuffer gate of lines 591-595
SpeakChunkNoGate ==
    /\ SpeakRuns
    /\ spc = "next"
    /\ nchunks < chunkLimit
    /\ nchunks' = nchunks + 1
    /\ \E n \in chunkSizes :
          IF STOP_EVENT
          THEN /\ spc' = "flush"
               /\ streamEnd' = "stop"
               /\ UNCHANGED <<buffer, received, started>>
          ELSE IF n = 0
          THEN UNCHANGED <<spc, buffer, received, started, streamEnd>>
          ELSE /\ buffer' = buffer + n
               /\ received' = received + n
               /\ UNCHANGED streamEnd
               /\ started' = TRUE
               /\ spc' = "drain"
    /\ UNCHANGED <<prebufferMs, chunkSizes, speakInMain, spokenDone,
                   chunkLimit, written, dropped, outcome,
                   stopWrites, stopPhase>>
    /\ UNCHANGED <<flagVars, sigVars, loopVars>>

\* 583-595: the next response arrives; the stop check, the empty-content skip,
\* buffer.extend and the prebuffer gate
SpeakChunk ==
    /\ SpeakRuns
    /\ spc = "next"
    /\ nchunks < chunkLimit
    /\ nchunks' = nchunks + 1
    /\ \E n \in chunkSizes :
          IF STOP_EVENT
          THEN /\ spc' = "flush"
               /\ streamEnd' = "stop"
               /\ UNCHANGED <<buffer, received, started>>
          ELSE IF n = 0
          THEN UNCHANGED <<spc, buffer, received, started, streamEnd>>
          ELSE /\ buffer' = buffer + n
               /\ received' = received + n
               /\ UNCHANGED streamEnd
               /\ IF ~started /\ buffer + n < PrebufferBytes(prebufferMs)
                  THEN UNCHANGED <<spc, started>>
                  ELSE started' = TRUE /\ spc' = "drain"
    /\ UNCHANGED <<prebufferMs, chunkSizes, speakInMain, spokenDone,
                   chunkLimit, written, dropped, outcome,
                   stopWrites, stopPhase>>
    /\ UNCHANGED <<flagVars, sigVars, loopVars>>

\* 583: rsp_iter is exhausted, the for loop ends
SpeakStreamEnd ==
    /\ SpeakRuns
    /\ spc = "next"
    /\ spc' = "flush"
    /\ streamEnd' = "eos"
    /\ UNCHANGED <<prebufferMs, chunkSizes, speakInMain, spokenDone,
                   buffer, received, started, nchunks,
                   chunkLimit, written, dropped, outcome, stopWrites, stopPhase>>
    /\ UNCHANGED <<flagVars, sigVars, loopVars>>

\* 582-583, 630-633: streaming_synthesize or the iterator raises
\* DeadlineExceeded, or another error; control goes to the handler and then to
\* the finally block
SpeakStreamRaise ==
    /\ SpeakRuns
    /\ spc = "next"
    /\ \E x \in {"deadline", "error"} : streamEnd' = x
    /\ spc' = "finally"
    /\ UNCHANGED <<prebufferMs, chunkSizes, speakInMain, spokenDone,
                   buffer, received, started, nchunks,
                   chunkLimit, written, dropped, outcome, stopWrites, stopPhase>>
    /\ UNCHANGED <<flagVars, sigVars, loopVars>>

\* SpeakDrainCheck without the stop check of lines 601-602
SpeakDrainCheckNoStop ==
    /\ SpeakRuns
    /\ spc = "drain"
    /\ IF buffer >= ChunkBytes
       THEN spc' = "dwrite" /\ buffer' = buffer - ChunkBytes
       ELSE spc' = "next" /\ UNCHANGED buffer
    /\ UNCHANGED <<prebufferMs, chunkSizes, speakInMain, spokenDone,
                   received, started, nchunks,
                   chunkLimit, written, dropped, streamEnd, outcome, stopWrites, stopPhase>>
    /\ UNCHANGED <<flagVars, sigVars, loopVars>>

\* 600-604: the condition of the block loop and its stop check
SpeakDrainCheck ==
    /\ SpeakRuns
    /\ spc = "drain"
    /\ IF buffer >= ChunkBytes /\ ~STOP_EVENT
       THEN spc' = "dwrite" /\ buffer' = buffer - ChunkBytes
       ELSE spc' = "next" /\ UNCHANGED buffer
    /\ UNCHANGED <<prebufferMs, chunkSizes, speakInMain, spokenDone,
                   received, started, nchunks,
                   chunkLimit, written, dropped, streamEnd, outcome, stopWrites, stopPhase>>
    /\ UNCHANGED <<flagVars, sigVars, loopVars>>

\* 605-611: out.write(to_write) of one block; an exception is logged and the
\* loop continues
SpeakDrainWrite ==
    /\ SpeakRuns
    /\ spc = "dwrite"
    /\ \/ written' = written + ChunkBytes /\ UNCHANGED dropped
       \/ dropped' = dropped + ChunkBytes /\ UNCHANGED written
    /\ stopWrites' = IF STOP_EVENT THEN stopWrites + 1 ELSE stopWrites
    /\ spc' = "drain"
    /\ UNCHANGED <<prebufferMs, chunkSizes, speakInMain, spokenDone,
                   buffer, received, started, nchunks,
                   chunkLimit, streamEnd, outcome, stopPhase>>
    /\ UNCHANGED <<flagVars, sigVars, loopVars>>

\* 617-621: the condition of the flush loop and its stop check
SpeakFlushCheck ==
    /\ SpeakRuns
    /\ spc = "flush"
    /\ IF buffer > 0 /\ ~STOP_EVENT
       THEN spc' = "fwrite" /\ UNCHANGED outcome
       ELSE /\ spc' = "finally"
            /\ outcome' = IF STOP_EVENT \/ streamEnd = "stop"
                          THEN "cancelled" ELSE "completed"
    /\ UNCHANGED <<prebufferMs, chunkSizes, speakInMain, spokenDone,
                   buffer, received, started, nchunks,
                   chunkLimit, written, dropped, streamEnd, stopWrites, stopPhase>>
    /\ UNCHANGED <<flagVars, sigVars, loopVars>>

\* SpeakFlushWrite with the flush left after its first write
SpeakFlushWriteOnce ==
    /\ SpeakRuns
    /\ spc = "fwrite"
    /\ LET n == Min(buffer, ChunkBytes)
       IN  /\ buffer' = buffer - n
           /\ \/ /\ written' = written + n
                 /\ spc' = "finally"
                 /\ outcome' = "completed"
                 /\ UNCHANGED dropped
              \/ /\ dropped' = dropped + n
                 /\ spc' = "finally"
                 /\ outcome' = "deviceerror"
                 /\ UNCHANGED written
    /\ stopWrites' = IF STOP_EVENT THEN stopWrites + 1 ELSE stopWrites
    /\ UNCHANGED <<prebufferMs, chunkSizes, speakInMain, spokenDone,
                   received, started, nchunks,
                   chunkLimit, streamEnd, stopPhase>>
    /\ UNCHANGED <<flagVars, sigVars, loopVars>>

\* 621-629: out.write of min(len(buffer), chunk_bytes) bytes; an exception is
\* logged and ends the flush
SpeakFlushWrite ==
    /\ SpeakRuns
    /\ spc = "fwrite"
    /\ LET n == Min(buffer, ChunkBytes)
       IN  /\ buffer' = buffer - n
           /\ \/ /\ written' = written + n
                 /\ spc' = "flush"
                 /\ UNCHANGED <<dropped, outcome>>
              \/ /\ dropped' = dropped + n
                 /\ spc' = "finally"
                 /\ outcome' = "deviceerror"
                 /\ UNCHANGED written
    /\ stopWrites' = IF STOP_EVENT THEN stopWrites + 1 ELSE stopWrites
    /\ UNCHANGED <<prebufferMs, chunkSizes, speakInMain, spokenDone,
                   received, started, nchunks,
                   chunkLimit, streamEnd, stopPhase>>
    /\ UNCHANGED <<flagVars, sigVars, loopVars>>

\* 630-641: the except clauses only log; finally stops and closes the output
\* stream and clears ACTIVE_TTS
SpeakFinally ==
    /\ SpeakRuns
    /\ spc = "finally"
    /\ outcome' = IF streamEnd = "deadline" THEN "timedout"
                  ELSE IF streamEnd = "error" THEN "error"
                  ELSE outcome
    /\ ACTIVE_TTS' = FALSE
    /\ spc' = "done"
    /\ UNCHANGED <<prebufferMs, chunkSizes, speakInMain, spokenDone,
                   buffer, received, started, nchunks,
                   chunkLimit, written, dropped, streamEnd, stopWrites, stopPhase>>
    /\ UNCHANGED <<STOP_EVENT, sigVars, loopVars>>

\* 807-810: the call has returned to the speak_worker that made it; its
\* finally clause sets spoken["done"]
SpeakWorkerFinally ==
    /\ ~exited
    /\ spc = "done"
    /\ ~speakInMain
    /\ ~spokenDone
    /\ spokenDone' = TRUE
    /\ UNCHANGED <<spc, prebufferMs, chunkSizes, speakInMain, buffer, received,
                   started, nchunks, chunkLimit, written, dropped, streamEnd,
                   outcome, stopWrites, stopPhase>>
    /\ UNCHANGED <<flagVars, sigVars, loopVars>>

\* a step of the call or of the worker that made it
SpeakStep ==
    \/ SpeakOpen
    \/ SpeakBegin
    \/ SpeakChunk
    \/ SpeakStreamEnd
    \/ SpeakStreamRaise
    \/ SpeakDrainCheck
    \/ SpeakDrainWrite
    \/ SpeakFlushCheck
    \/ SpeakFlushWrite
    \/ SpeakFinally
    \/ SpeakWorkerFinally

(***************************************************************************)
(* _handle_signal (AI_Chat.py 64-83), installed for SIGINT, SIGTERM,       *)
(* SIGTSTP and SIGHUP; Python runs it on the main thread.                  *)
(***************************************************************************)
\* the literal 0.05 of the sleep step
PollStep == F0_05

\* the literal 3.0 that bounds the handler's wait
GraceSec == F3_0

SigInit ==
    /\ hpc = "none"
    /\ hwaited = FZero
    /\ hpolls = 0
    /\ exited = FALSE

\* 64-69: a signal is delivered; the handler sets STOP_EVENT
HandleSignal ==
    /\ ~exited
    /\ hpc = "none"
    /\ STOP_EVENT' = TRUE
    /\ stopPhase' = spc
    /\ hpc' = "test"
    /\ UNCHANGED <<hwaited, hpolls, exited, ACTIVE_TTS>>
    /\ UNCHANGED <<spc, prebufferMs, chunkSizes, speakInMain, spokenDone,
                   buffer, received, started,
                   nchunks, chunkLimit, written, dropped, streamEnd, outcome, stopWrites>>
    /\ UNCHANGED loopVars

\* 71-74: if ACTIVE_TTS.is_set(): waited = 0.0
HandleTest ==
    /\ ~exited
    /\ hpc = "test"
    /\ IF ACTIVE_TTS
       THEN hpc' = "wait" /\ hwaited' = FZero
       ELSE hpc' = "exit" /\ UNCHANGED hwaited
    /\ UNCHANGED <<hpolls, exited, flagVars, speakVars, loopVars>>

\* HandleWait without the bound on waited
HandleWaitNoBound ==
    /\ ~exited
    /\ hpc = "wait"
    /\ IF ACTIVE_TTS
       THEN /\ hwaited' = FAdd(hwaited, PollStep)
            /\ hpolls' = hpolls + 1
            /\ UNCHANGED hpc
       ELSE hpc' = "exit" /\ UNCHANGED <<hwaited, hpolls>>
    /\ UNCHANGED <<exited, flagVars, speakVars, loopVars>>

\* 75-77: while ACTIVE_TTS.is_set() and waited < 3.0: sleep(0.05); waited += 0.05
HandleWait ==
    /\ ~exited
    /\ hpc = "wait"
    /\ IF ACTIVE_TTS /\ FLess(hwaited, GraceSec)
       THEN /\ hwaited' = FAdd(hwaited, PollStep)
            /\ hpolls' = hpolls + 1
            /\ UNCHANGED hpc
       ELSE hpc' = "exit" /\ UNCHANGED <<hwaited, hpolls>>
    /\ UNCHANGED <<exited, flagVars, speakVars, loopVars>>

\* 80-83: sys.exit(0); the worker threads are daemons and end with the process
HandleExit ==
    /\ ~exited
    /\ hpc = "exit"
    /\ exited' = TRUE
    /\ hpc' = "gone"
    /\ UNCHANGED <<hwaited, hpolls, flagVars, speakVars, loopVars>>

(***************************************************************************)
(* _warn_after(delay_sec, cancel_event, msg) (AI_Chat.py 188-196) with     *)
(* _alert and _beep (162-186).  Watcher 0 is the one main starts for the   *)
(* intro, watcher t the one of turn t.                                     *)
(***************************************************************************)
\* turns (calls of record) the main loop makes at most
MaxTurns == 2

\* listen attempts main is followed for where its captures alone are looked
\* at (SpecListen); the watchers, sessions and workers of a turn are named
\* by its number, up to this one
MaxListens == 4

Watchers == 0..MaxListens

\* no watcher has been started
WarnIdle ==
    /\ wpc = [w \in Watchers |-> "none"]
    /\ wdelay = [w \in Watchers |-> FZero]
    /\ wwaited = [w \in Watchers |-> FZero]
    /\ wcancel = [w \in Watchers |-> FALSE]
    /\ wemitted = [w \in Watchers |-> 0]
    /\ wexpiry = [w \in Watchers |-> "pending"]
    /\ wobserved = [w \in Watchers |-> FALSE]

\* 188-196: _warn_after starts the worker thread; waited = 0.0
WarnStart(w, delay) ==
    /\ wpc' = [wpc EXCEPT ![w] = "loop"]
    /\ wdelay' = [wdelay EXCEPT ![w] = delay]
    /\ wwaited' = [wwaited EXCEPT ![w] = FZero]

\* 192-193: while waited < delay_sec and not STOP_EVENT.is_set() and not
\* cancel_event.is_set(): time.sleep(step); waited += step
WarnLoop(w) ==
    /\ ~exited
    /\ wpc[w] = "loop"
    /\ IF FLess(wwaited[w], wdelay[w]) /\ ~STOP_EVENT /\ ~wcancel[w]
       THEN /\ wwaited' = [wwaited EXCEPT ![w] = FAdd(wwaited[w], PollStep)]
            /\ UNCHANGED <<wpc, wexpiry, wobserved>>
       ELSE /\ wpc' = [wpc EXCEPT ![w] = "check"]
            /\ wexpiry' = [wexpiry EXCEPT ![w] =
                              IF ~FLess(wwaited[w], wdelay[w]) /\ ~STOP_EVENT /\ ~wcancel[w]
                              THEN "clean" ELSE "cut"]
            /\ wobserved' = [wobserved EXCEPT ![w] =
                                FLess(wwaited[w], wdelay[w])]
            /\ UNCHANGED wwaited
    /\ UNCHANGED <<wdelay, wcancel, wemitted, alertBeeps>>
    /\ UNCHANGED <<flagVars, speakVars, sigVars, mainVars>>
    /\ UNCHANGED <<alertVars, extVars>>

\* WarnCheck without the test of cancel_event
WarnCheckNoCancel(w) ==
    /\ ~exited
    /\ wpc[w] = "check"
    /\ IF ~STOP_EVENT
       THEN wpc' = [wpc EXCEPT ![w] = "alert"] /\ UNCHANGED wobserved
       ELSE /\ wpc' = [wpc EXCEPT ![w] = "done"]
            /\ wobserved' = [wobserved EXCEPT ![w] = TRUE]
    /\ UNCHANGED <<wdelay, wwaited, wcancel, wemitted, wexpiry, alertBeeps>>
    /\ UNCHANGED <<flagVars, speakVars, sigVars, mainVars>>
    /\ UNCHANGED <<alertVars, extVars>>

\* 194: if not STOP_EVENT.is_set() and not cancel_event.is_set()
WarnCheck(w) ==
    /\ ~exited
    /\ wpc[w] = "check"
    /\ IF ~STOP_EVENT /\ ~wcancel[w]
       THEN wpc' = [wpc EXCEPT ![w] = "alert"] /\ UNCHANGED wobserved
       ELSE /\ wpc' = [wpc EXCEPT ![w] = "done"]
            /\ wobserved' = [wobserved EXCEPT ![w] = TRUE]
    /\ UNCHANGED <<wdelay, wwaited, wcancel, wemitted, wexpiry, alertBeeps>>
    /\ UNCHANGED <<flagVars, speakVars, sigVars, mainVars>>
    /\ UNCHANGED <<alertVars, extVars>>

\* 195, 181-186, 162-167: _alert(msg) logs the alert and calls _beep, which
\* returns at once when ALERT_BEEPS is off or ACTIVE_TTS is set
WarnAlert(w) ==
    /\ ~exited
    /\ wpc[w] = "alert"
    /\ wemitted' = [wemitted EXCEPT ![w] = wemitted[w] + 1]
    /\ wpc' = [wpc EXCEPT ![w] = IF alertBeeps /\ ~ACTIVE_TTS THEN "tone" ELSE "done"]
    /\ UNCHANGED <<wdelay, wwaited, wcancel, wexpiry, wobserved, alertBeeps>>
    /\ UNCHANGED <<flagVars, speakVars, sigVars, mainVars>>
    /\ UNCHANGED <<alertVars, extVars>>

\* 168-174: sd.play(tone, blocking=True) returns after the 120 ms tone
WarnTone(w) ==
    /\ ~exited
    /\ wpc[w] = "tone"
    /\ wpc' = [wpc EXCEPT ![w] = "done"]
    /\ UNCHANGED <<wdelay, wwaited, wcancel, wemitted, wexpiry, wobserved, alertBeeps>>
    /\ UNCHANGED <<flagVars, speakVars, sigVars, mainVars>>
    /\ UNCHANGED <<alertVars, extVars>>

(***************************************************************************)
(* main (AI_Chat.py 713-837) and the threads it starts.  A streaming_speak *)
(* call is followed here only through the points the other threads can     *)
(* see: the output stream opened, ACTIVE_TTS set, a block being written,   *)
(* ACTIVE_TTS cleared.  Time is left out: a blocking call returns at any   *)
(* moment, and a wait with a timeout may time out at any moment.           *)
(***************************************************************************)
Turns == 1..MaxListens

\* the streaming_speak calls main makes: the intro (739), the reply of
\* turn t (809), the farewell (836)
Intro == 0

Bye == MaxListens + 1

\* turns the alerts entry point is followed for
AlertTurns == 1

\* its warn_if_slow workers, three a turn
SlowIds == 0..(3 * AlertTurns - 1)

\* with the calls speak_or_beep makes in the alerts entry point: one for
\* each warn_if_slow worker and one for a prompt of main in each turn
SessIds == 0..(MaxListens + 2 + 4 * AlertTurns)

\* 159: NO_SPEECH_REPEATS_MAX
NO_SPEECH_REPEATS_MAX == 3

\* 0.1, twice the poll step
F0_1 == FAdd(F0_05, F0_05)

\* 155, 156: the run sets WAILO_TTS_START_WARN_SEC and WAILO_LLM_WARN_SEC
\* to 0.1, two polls of a watcher (the defaults 2 and 5 make 40 and 101)
TTS_START_WARN_SEC == F0_1

LLM_WARN_SEC == F0_1

\* 514: the run sets WAILO_LISTEN_WAIT_SEC to 0.1, two polls of the wait
\* for playback (the default 10 makes 200)
LISTEN_WAIT_SEC == F0_1

\* 834: the set of exit keywords
ExitWords == {"exit", "quit", "bye"}

\* what transcribe returns, lower-cased, as its words and punctuation marks
\* (494: enable_automatic_punctuation=True)
Utterances == {<<"bye">>, <<"bye", ".">>, <<"hello">>}

\* an exit keyword is among the words of the utterance
HasExitWord(u) == \E i \in DOMAIN u : u[i] \in ExitWords

\* 834: utter.lower().strip() in {"exit", "quit", "bye"}: the whole
\* utterance is a keyword
IsExit(u) == Len(u) = 1 /\ u[1] \in ExitWords

\* main has not been entered
MainIdle ==
    /\ mpc = "off"
    /\ turn = 0
    /\ turnLimit = 0
    /\ sess = [k \in SessIds |-> "none"]
    /\ recording = FALSE
    /\ cwaited = FZero
    /\ utterExit = FALSE
    /\ firstMicAttempt = TRUE
    /\ noSpeechStreak = 0
    /\ rpc = [t \in Turns |-> "none"]
    /\ micCancel = [t \in Turns |-> FALSE]
    /\ listenAfterTts = TRUE
    /\ listenWait = FZero
    /\ exitOnNoMic = FALSE

\* 181-186, 162-174 on the main thread: _alert(msg), then `continue`
\* once _beep has returned
MainAlert == IF alertBeeps /\ ~ACTIVE_TTS THEN "mtone" ELSE "top"

\* 741: the intro worker sets intro_done, the cancel_event of watcher 0
WorkerDone(k) == IF k = Intro THEN [wcancel EXCEPT ![0] = TRUE] ELSE wcancel

\* 715-750: with an intro, main starts the intro worker and the watcher of
\* a slow start; without, it enters the loop
MainStart ==
    /\ ~exited
    /\ mpc = "start"
    /\ \/ /\ sess' = [sess EXCEPT ![Intro] = "spawned"]
          /\ WarnStart(0, TTS_START_WARN_SEC)
          /\ mpc' = "introwait"
       \/ /\ mpc' = "top"
          /\ UNCHANGED <<sess, wpc, wdelay, wwaited>>
    /\ UNCHANGED <<wcancel, wemitted, wexpiry, wobserved, alertBeeps>>
    /\ UNCHANGED <<turn, recording, cwaited, utterExit, firstMicAttempt,
                   noSpeechStreak, rpc, micCancel, cfgVars>>
    /\ UNCHANGED <<flagVars, speakVars, sigVars>>
    /\ UNCHANGED <<alertVars, extVars>>

\* 748-752: intro_done.wait(timeout=max_wait) returns, the intro over or not
MainIntroWait ==
    /\ ~exited
    /\ mpc = "introwait"
    /\ mpc' = "top"
    /\ UNCHANGED <<turn, sess, recording, cwaited, utterExit, firstMicAttempt,
                   noSpeechStreak, rpc, micCancel, cfgVars>>
    /\ UNCHANGED <<flagVars, speakVars, sigVars, warnVars>>
    /\ UNCHANGED <<alertVars, extVars>>

\* 754-768: the head of the loop: leave on STOP_EVENT, sleep and retry when
\* silenced, else start the mic_ready_worker of the turn
MainTop ==
    /\ ~exited
    /\ mpc = "top"
    /\ IF STOP_EVENT
       THEN /\ mpc' = "end"
            /\ exited' = TRUE
            /\ UNCHANGED <<turn, rpc>>
            /\ UNCHANGED <<calls, utter, reply, gated>>
       ELSE /\ gated' = quiet
            /\ IF quiet
               THEN UNCHANGED <<mpc, turn, rpc, calls, utter, reply>>
               ELSE /\ turn < turnLimit
                    /\ turn' = turn + 1
                    /\ rpc' = [rpc EXCEPT ![turn + 1] = "sleep"]
                    /\ calls' = <<>>
                    /\ utter' = <<>>
                    /\ reply' = "none"
                    /\ mpc' = "record"
            /\ UNCHANGED exited
    /\ UNCHANGED <<sess, recording, cwaited, utterExit, firstMicAttempt,
                   noSpeechStreak, micCancel, cfgVars>>
    /\ UNCHANGED <<hpc, hwaited, hpolls, flagVars, speakVars, warnVars>>
    /\ UNCHANGED <<alertVars, netVars, libVars, recVars, histVars, quiet>>

\* 770, 413-423: record() opens the input stream
MainRecordOpen ==
    /\ ~exited
    /\ mpc = "record"
    /\ recording' = TRUE
    /\ mpc' = "recording"
    /\ UNCHANGED <<turn, sess, cwaited, utterExit, firstMicAttempt,
                   noSpeechStreak, rpc, micCancel, cfgVars>>
    /\ UNCHANGED <<flagVars, speakVars, sigVars, warnVars>>
    /\ UNCHANGED <<alertVars, extVars>>

\* the exit of 774 on any attempt
FirstSilenceExitAlways(first, optOn) == optOn

\* 774: if first_mic_attempt and EXIT_ON_NO_MIC
FirstSilenceExit(first, optOn) == first /\ optOn

\* 770-788: record() has given raw.  An exception is caught nowhere (main
\* is called under `except KeyboardInterrupt` alone, 839-843): the main
\* thread ends with a traceback and the process with it.  Else main sets
\* mic_ready_cancel; on None it leaves by sys.exit(1) when this is the
\* first attempt and EXIT_ON_NO_MIC is on, else counts the streak and, at
\* the maximum, prompts and sets the streak to 0; on bytes it clears
\* first_mic_attempt and goes on
MainAfterRecord(raw) ==
    /\ recording' = FALSE
    /\ lastRaw' = raw
    /\ calls' = IF raw = "bytes" THEN Append(calls, "transcribe") ELSE calls
    /\ IF raw = "error"
       THEN /\ mpc' = "crashed"
            /\ exited' = TRUE
            /\ louder' = FALSE
            /\ UNCHANGED <<micCancel, firstMicAttempt, noSpeechStreak, emptyRun>>
       ELSE /\ micCancel' = [micCancel EXCEPT ![turn] = TRUE]
            /\ IF raw = "bytes"
               THEN /\ firstMicAttempt' = FALSE
                    /\ mpc' = "transcribe"
                    /\ emptyRun' = 0
                    /\ louder' = FALSE
                    /\ UNCHANGED <<noSpeechStreak, exited>>
               ELSE /\ emptyRun' = emptyRun + 1
                    /\ IF FirstSilenceExit(firstMicAttempt, exitOnNoMic)
                       THEN /\ mpc' = "fatal"
                            /\ exited' = TRUE
                            /\ louder' = FALSE
                            /\ UNCHANGED noSpeechStreak
                       ELSE /\ IF noSpeechStreak + 1 >= NO_SPEECH_REPEATS_MAX
                               THEN /\ noSpeechStreak' = 0
                                    /\ louder' = TRUE
                                    /\ mpc' = MainAlert
                               ELSE /\ noSpeechStreak' = noSpeechStreak + 1
                                    /\ louder' = FALSE
                                    /\ mpc' = "top"
                            /\ UNCHANGED exited
                    /\ UNCHANGED firstMicAttempt

\* 425-447, 770: record() returns bytes or None, or a read of it raises
MainRecordDone ==
    /\ ~exited
    /\ mpc = "recording"
    /\ \E raw \in {"bytes", "None", "error"} : MainAfterRecord(raw)
    /\ UNCHANGED <<turn, sess, cwaited, utterExit, rpc, cfgVars>>
    /\ UNCHANGED <<hpc, hwaited, hpolls, flagVars, speakVars, warnVars>>
    /\ UNCHANGED <<alertVars, netVars, libVars, recVars, utter, reply, quiet, gated>>

\* 789-801, 451-502: transcribe(raw) is over.  It returns None on a
\* GoogleAPIError of recognize, on no result and on a short payload, and
\* main then prompts and starts over; any other exception of it
\* (SpeechClient() without credentials, 464; the temporary file, 468-478;
\* a result without alternatives, 502) is caught nowhere and ends main as
\* one of record() does.  On a text main logs the request (797, a
\* synchronous POST), starts the watcher of a slow reply and calls chat_gpt
MainTranscribe ==
    /\ ~exited
    /\ mpc = "transcribe"
    /\ \/ /\ mpc' = "crashed"
          /\ exited' = TRUE
          /\ UNCHANGED <<utterExit, wpc, wdelay, wwaited, utter, calls>>
       \/ /\ mpc' = MainAlert
          /\ calls' = Append(calls, "_alert")
          /\ UNCHANGED <<utterExit, wpc, wdelay, wwaited, utter, exited>>
       \/ /\ \E u \in Utterances : utter' = u /\ utterExit' = IsExit(u)
          /\ WarnStart(turn, LLM_WARN_SEC)
          /\ calls' = calls \o <<"log_request", "chat_gpt">>
          /\ mpc' = "think"
          /\ UNCHANGED exited
    /\ UNCHANGED <<wcancel, wemitted, wexpiry, wobserved, alertBeeps>>
    /\ UNCHANGED <<turn, sess, recording, cwaited, firstMicAttempt,
                   noSpeechStreak, rpc, micCancel, cfgVars>>
    /\ UNCHANGED <<hpc, hwaited, hpolls, flagVars, speakVars>>
    /\ UNCHANGED <<alertVars, netVars, libVars, recVars, histVars, reply, quiet, gated>>

\* chat_gpt with the exception of a failed completion caught but nothing
\* returned after it
ChatGptNone(ok) == IF ok THEN "reply" ELSE "None"

\* 645-659: chat_gpt returns the stripped content of the first choice, or,
\* when the completion call or the reading of its result raises, the
\* apology
ChatGpt(ok) == IF ok THEN "reply" ELSE "Sorry, something went wrong."

\* MainThink started as soon as the capture is there, whether transcribe
\* and chat_gpt have returned or not
MainThinkEarly ==
    /\ ~exited
    /\ mpc \in {"transcribe", "think"}
    /\ wcancel' = [wcancel EXCEPT ![turn] = TRUE]
    /\ sess' = [sess EXCEPT ![turn] = "spawned"]
    /\ cwaited' = FZero
    /\ calls' = calls \o <<"speak_worker", "log_response", "analyze_and_log_async">>
    /\ \E ok \in BOOLEAN : reply' = ChatGpt(ok)
    /\ mpc' = "cooldown"
    /\ UNCHANGED <<wpc, wdelay, wwaited, wemitted, wexpiry, wobserved, alertBeeps>>
    /\ UNCHANGED <<turn, recording, utterExit, firstMicAttempt,
                   noSpeechStreak, rpc, micCancel, cfgVars>>
    /\ UNCHANGED <<flagVars, speakVars, sigVars>>
    /\ UNCHANGED <<alertVars, netVars, libVars, recVars, histVars, utter, quiet, gated>>

\* 802-825: chat_gpt returns (it catches every exception, 645-659);
\* llm_cancel.set(); the speak_worker thread is started (812); then main
\* logs the response (815, a synchronous POST) and starts the analytics
\* thread (818); waited = 0.0
MainThink ==
    /\ ~exited
    /\ mpc = "think"
    /\ wcancel' = [wcancel EXCEPT ![turn] = TRUE]
    /\ sess' = [sess EXCEPT ![turn] = "spawned"]
    /\ cwaited' = FZero
    /\ calls' = calls \o <<"speak_worker", "log_response", "analyze_and_log_async">>
    /\ \E ok \in BOOLEAN : reply' = ChatGpt(ok)
    /\ mpc' = "cooldown"
    /\ UNCHANGED <<wpc, wdelay, wwaited, wemitted, wexpiry, wobserved, alertBeeps>>
    /\ UNCHANGED <<turn, recording, utterExit, firstMicAttempt,
                   noSpeechStreak, rpc, micCancel, cfgVars>>
    /\ UNCHANGED <<flagVars, speakVars, sigVars>>
    /\ UNCHANGED <<alertVars, netVars, libVars, recVars, histVars, utter, quiet, gated>>

\* MainCooldown without the test of waited
MainCooldownNoBound ==
    /\ ~exited
    /\ mpc = "cooldown"
    /\ IF listenAfterTts /\ sess[turn] # "done"
       THEN cwaited' = FAdd(cwaited, PollStep) /\ UNCHANGED mpc
       ELSE mpc' = "gap" /\ UNCHANGED cwaited
    /\ UNCHANGED <<turn, sess, recording, utterExit, firstMicAttempt,
                   noSpeechStreak, rpc, micCancel, cfgVars>>
    /\ UNCHANGED <<flagVars, speakVars, sigVars, warnVars>>
    /\ UNCHANGED <<alertVars, extVars>>

\* 824-830: if LISTEN_AFTER_TTS: while not spoken["done"] and
\* waited < LISTEN_WAIT_SEC: time.sleep(0.05); waited += 0.05
MainCooldown ==
    /\ ~exited
    /\ mpc = "cooldown"
    /\ IF listenAfterTts /\ sess[turn] # "done" /\ FLess(cwaited, listenWait)
       THEN cwaited' = FAdd(cwaited, PollStep) /\ UNCHANGED mpc
       ELSE mpc' = "gap" /\ UNCHANGED cwaited
    /\ UNCHANGED <<turn, sess, recording, utterExit, firstMicAttempt,
                   noSpeechStreak, rpc, micCancel, cfgVars>>
    /\ UNCHANGED <<flagVars, speakVars, sigVars, warnVars>>
    /\ UNCHANGED <<alertVars, extVars>>

\* 832-837: time.sleep(0.05); on an exit keyword main itself calls
\* streaming_speak("Goodbye!"), else it starts the next iteration
MainGap ==
    /\ ~exited
    /\ mpc = "gap"
    /\ IF utterExit
       THEN /\ sess' = [sess EXCEPT ![Bye] = "spawned"]
            /\ calls' = Append(calls, "streaming_speak")
            /\ mpc' = "bye"
       ELSE mpc' = "top" /\ UNCHANGED <<sess, calls>>
    /\ UNCHANGED <<turn, recording, cwaited, utterExit, firstMicAttempt,
                   noSpeechStreak, rpc, micCancel, cfgVars>>
    /\ UNCHANGED <<flagVars, speakVars, sigVars, warnVars>>
    /\ UNCHANGED <<alertVars, netVars, libVars, recVars, histVars, utter, reply, quiet, gated>>

\* 168-174: the tone of an _alert of main has played; `continue`
MainToneDone ==
    /\ ~exited
    /\ mpc = "mtone"
    /\ mpc' = "top"
    /\ UNCHANGED <<turn, sess, recording, cwaited, utterExit, firstMicAttempt,
                   noSpeechStreak, rpc, micCancel, cfgVars>>
    /\ UNCHANGED <<flagVars, speakVars, sigVars, warnVars>>
    /\ UNCHANGED <<alertVars, extVars>>

\* 836-843: the farewell has returned; break, main returns and the process
\* ends with its daemon threads
MainByeDone ==
    /\ ~exited
    /\ mpc = "bye"
    /\ sess[Bye] = "done"
    /\ mpc' = "end"
    /\ exited' = TRUE
    /\ UNCHANGED <<turn, sess, recording, cwaited, utterExit, firstMicAttempt,
                   noSpeechStreak, rpc, micCancel, cfgVars>>
    /\ UNCHANGED <<hpc, hwaited, hpolls, flagVars, speakVars, warnVars>>
    /\ UNCHANGED <<alertVars, extVars>>

\* what every step of a streaming_speak call leaves alone
SessFrame ==
    /\ UNCHANGED <<mpc, turn, recording, cwaited, utterExit, firstMicAttempt,
                   noSpeechStreak, rpc, micCancel, cfgVars>>
    /\ UNCHANGED <<wpc, wdelay, wwaited, wemitted, wexpiry, wobserved, alertBeeps>>
    /\ UNCHANGED <<STOP_EVENT, speakVars, sigVars>>
    /\ UNCHANGED <<alertVars, extVars>>

\* 516-563: the call opens and starts the output stream; if that raises the
\* call returns and its worker marks it over
SessOpen(k) ==
    /\ ~exited
    /\ sess[k] = "spawned"
    /\ \/ sess' = [sess EXCEPT ![k] = "opened"] /\ UNCHANGED wcancel
       \/ sess' = [sess EXCEPT ![k] = "done"] /\ wcancel' = WorkerDone(k)
    /\ UNCHANGED ACTIVE_TTS
    /\ SessFrame

\* 579-580: ACTIVE_TTS.set()
SessBegin(k) ==
    /\ ~exited
    /\ sess[k] = "opened"
    /\ sess' = [sess EXCEPT ![k] = "active"]
    /\ ACTIVE_TTS' = TRUE
    /\ UNCHANGED wcancel
    /\ SessFrame

\* 600-629: out.write(block) is entered, in the response loop or the flush
SessWrite(k) ==
    /\ ~exited
    /\ sess[k] = "active"
    /\ sess' = [sess EXCEPT ![k] = "writing"]
    /\ UNCHANGED <<ACTIVE_TTS, wcancel>>
    /\ SessFrame

\* out.write(block) has returned
SessWritten(k) ==
    /\ ~exited
    /\ sess[k] = "writing"
    /\ sess' = [sess EXCEPT ![k] = "active"]
    /\ UNCHANGED <<ACTIVE_TTS, wcancel>>
    /\ SessFrame

\* 630-641: the call ends, by completion, cancellation, timeout or error:
\* finally ACTIVE_TTS.clear(), the stream is closed, the worker marks it over
SessEnd(k) ==
    /\ ~exited
    /\ sess[k] = "active"
    /\ sess' = [sess EXCEPT ![k] = "done"]
    /\ ACTIVE_TTS' = FALSE
    /\ wcancel' = WorkerDone(k)
    /\ SessFrame

(***************************************************************************)
(* AI_Chat_alerts.main (AI_Chat_alerts.py 104-213) with warn_if_slow       *)
(* (94-101) and speak_or_beep (53-64), for a run that has no intro to give *)
(* and is not silenced.  warn_if_slow compares time.time() with start_ts,  *)
(* so this part keeps a clock: `now` counts whole seconds, and a blocking  *)
(* call may return within the second or after any number of them.          *)
(***************************************************************************)
\* seconds the clock is followed for
MaxClock == 3

\* 24-26: STT_WARN_SEC, TTS_START_WARN_SEC and LLM_WARN_SEC as
\* AI_Chat_alerts reads them, at their defaults
ALERTS_STT_WARN_SEC == 3

ALERTS_TTS_START_WARN_SEC == 2

ALERTS_LLM_WARN_SEC == 5

\* the warn_if_slow workers of turn t: transcription (160), reasoning (174)
\* and start of playback (179)
SttSlow(t) == 3 * (t - 1)

LlmSlow(t) == 3 * (t - 1) + 1

TtsSlow(t) == 3 * (t - 1) + 2

\* the `seconds` worker w is started with
SlowSec(w) ==
    IF w % 3 = 0 THEN ALERTS_STT_WARN_SEC
    ELSE IF w % 3 = 1 THEN ALERTS_LLM_WARN_SEC
    ELSE ALERTS_TTS_START_WARN_SEC

\* the streaming_speak call speak_or_beep makes for worker w, and the one it
\* makes for a prompt of main in turn t
AlertSess(w) == MaxListens + 2 + w

PromptSess(t) == MaxListens + 2 + 3 * AlertTurns + t

\* the alerts entry point has not been entered
AlertsIdle ==
    /\ apc = "off"
    /\ now = 0
    /\ swpc = [w \in SlowIds |-> "none"]
    /\ swstart = [w \in SlowIds |-> 0]
    /\ swemitted = [w \in SlowIds |-> FALSE]
    /\ swactive = [w \in SlowIds |-> FALSE]
    /\ doneAt = [w \in SlowIds |-> -1]

\* 94-101: warn_if_slow(start_ts, seconds, ...) starts the worker thread
SlowStart(w) ==
    /\ swpc' = [swpc EXCEPT ![w] = "poll"]
    /\ swstart' = [swstart EXCEPT ![w] = now]

\* a second passes
Tick ==
    /\ ~exited
    /\ apc # "off"
    /\ now < MaxClock
    /\ now' = now + 1
    /\ UNCHANGED <<apc, swpc, swstart, swemitted, swactive, doneAt>>
    /\ UNCHANGED <<flagVars, speakVars, sigVars, warnVars, mainVars>>
    /\ UNCHANGED extVars

\* 134-149: the head of the loop: leave on STOP_EVENT; when silenced, call
\* speak_or_beep("I'm on quiet time now."), sleep and retry; else start
\* the mic_ready_worker and call record(), which opens the input stream
AlertsTop ==
    /\ ~exited
    /\ apc = "top"
    /\ IF STOP_EVENT
       THEN /\ apc' = "end"
            /\ exited' = TRUE
            /\ UNCHANGED <<turn, rpc, recording, gated>>
       ELSE /\ gated' = quiet
            /\ IF quiet
               THEN /\ apc' = "prompt"
                    /\ UNCHANGED <<turn, rpc, recording>>
               ELSE /\ turn < turnLimit
                    /\ turn' = turn + 1
                    /\ rpc' = [rpc EXCEPT ![turn + 1] = "sleep"]
                    /\ recording' = TRUE
                    /\ apc' = "recording"
            /\ UNCHANGED exited
    /\ UNCHANGED <<mpc, sess, cwaited, utterExit, firstMicAttempt,
                   noSpeechStreak, micCancel, cfgVars>>
    /\ UNCHANGED <<now, swpc, swstart, swemitted, swactive, doneAt>>
    /\ UNCHANGED <<hpc, hwaited, hpolls, flagVars, speakVars, warnVars>>
    /\ UNCHANGED <<netVars, libVars, recVars, histVars, calls, utter, reply, quiet>>

\* 149-160: record() returns; without speech the streak is counted and at
\* the maximum main prompts; with speech the streak is reset and the
\* watcher of transcription is started
AlertsRecordDone ==
    /\ ~exited
    /\ apc = "recording"
    /\ recording' = FALSE
    /\ \/ /\ IF noSpeechStreak + 1 >= NO_SPEECH_REPEATS_MAX
             THEN noSpeechStreak' = 0 /\ apc' = "prompt"
             ELSE noSpeechStreak' = noSpeechStreak + 1 /\ apc' = "top"
          /\ UNCHANGED <<swpc, swstart>>
       \/ /\ noSpeechStreak' = 0
          /\ SlowStart(SttSlow(turn))
          /\ apc' = "transcribe"
    /\ UNCHANGED <<mpc, turn, sess, cwaited, utterExit, firstMicAttempt,
                   rpc, micCancel, cfgVars>>
    /\ UNCHANGED <<now, swemitted, swactive, doneAt>>
    /\ UNCHANGED <<flagVars, speakVars, sigVars, warnVars>>
    /\ UNCHANGED extVars

\* 161-174: transcribe(raw) returns; an empty result makes main prompt;
\* else the request is logged and the watcher of reasoning is started
AlertsTranscribe ==
    /\ ~exited
    /\ apc = "transcribe"
    /\ doneAt' = [doneAt EXCEPT ![SttSlow(turn)] = now]
    /\ \/ /\ apc' = "prompt"
          /\ UNCHANGED <<utterExit, swpc, swstart>>
       \/ /\ utterExit' \in BOOLEAN
          /\ SlowStart(LlmSlow(turn))
          /\ apc' = "think"
    /\ UNCHANGED <<mpc, turn, sess, recording, cwaited, firstMicAttempt,
                   noSpeechStreak, rpc, micCancel, cfgVars>>
    /\ UNCHANGED <<now, swemitted, swactive>>
    /\ UNCHANGED <<flagVars, speakVars, sigVars, warnVars>>
    /\ UNCHANGED extVars

\* 175-203: chat_gpt returns; the watcher of the start of playback and the
\* speak_worker thread are started; the response is logged; waited = 0.0
AlertsThink ==
    /\ ~exited
    /\ apc = "think"
    /\ doneAt' = [doneAt EXCEPT ![LlmSlow(turn)] = now]
    /\ SlowStart(TtsSlow(turn))
    /\ sess' = [sess EXCEPT ![turn] = "spawned"]
    /\ cwaited' = FZero
    /\ apc' = "wait"
    /\ UNCHANGED <<mpc, turn, recording, utterExit, firstMicAttempt,
                   noSpeechStreak, rpc, micCancel, cfgVars>>
    /\ UNCHANGED <<now, swemitted, swactive>>
    /\ UNCHANGED <<flagVars, speakVars, sigVars, warnVars>>
    /\ UNCHANGED extVars

\* 203-213: while not spoken["done"] and waited < max_wait and not
\* STOP_EVENT: sleep, waited += 0.05; then on an exit keyword main itself
\* calls streaming_speak("Goodbye!"), else it starts the next iteration
AlertsWait ==
    /\ ~exited
    /\ apc = "wait"
    /\ IF /\ listenAfterTts
          /\ sess[turn] # "done"
          /\ FLess(cwaited, listenWait)
          /\ ~STOP_EVENT
       THEN cwaited' = FAdd(cwaited, PollStep) /\ UNCHANGED <<apc, sess>>
       ELSE /\ IF utterExit
               THEN sess' = [sess EXCEPT ![Bye] = "spawned"] /\ apc' = "bye"
               ELSE apc' = "top" /\ UNCHANGED sess
            /\ UNCHANGED cwaited
    /\ UNCHANGED <<mpc, turn, recording, utterExit, firstMicAttempt,
                   noSpeechStreak, rpc, micCancel, cfgVars>>
    /\ UNCHANGED <<now, swpc, swstart, swemitted, swactive, doneAt>>
    /\ UNCHANGED <<flagVars, speakVars, sigVars, warnVars>>
    /\ UNCHANGED extVars

\* 211-213: the farewell has returned; break, main returns and the process
\* ends with its daemon threads
AlertsByeDone ==
    /\ ~exited
    /\ apc = "bye"
    /\ sess[Bye] = "done"
    /\ apc' = "end"
    /\ exited' = TRUE
    /\ UNCHANGED <<now, swpc, swstart, swemitted, swactive, doneAt>>
    /\ UNCHANGED <<hpc, hwaited, hpolls, flagVars, speakVars, warnVars, mainVars>>
    /\ UNCHANGED extVars

\* 53-64 on the main thread: speak_or_beep(text) speaks when net_up() holds
\* and beeps otherwise; beep() returns at once when ALERT_BEEPS is off
AlertsPrompt ==
    /\ ~exited
    /\ apc = "prompt"
    /\ \/ /\ sess' = [sess EXCEPT ![PromptSess(turn)] = "spawned"]
          /\ apc' = "say"
       \/ /\ apc' = IF alertBeeps THEN "beep" ELSE "top"
          /\ UNCHANGED sess
    /\ UNCHANGED <<mpc, turn, recording, cwaited, utterExit, firstMicAttempt,
                   noSpeechStreak, rpc, micCancel, cfgVars>>
    /\ UNCHANGED <<now, swpc, swstart, swemitted, swactive, doneAt>>
    /\ UNCHANGED <<flagVars, speakVars, sigVars, warnVars>>
    /\ UNCHANGED extVars

\* speak_or_beep has returned on the main thread; `continue`
AlertsPromptDone ==
    /\ ~exited
    /\ \/ apc = "say" /\ sess[PromptSess(turn)] = "done"
       \/ apc = "beep"
    /\ apc' = "top"
    /\ UNCHANGED <<now, swpc, swstart, swemitted, swactive, doneAt>>
    /\ UNCHANGED <<flagVars, speakVars, sigVars, warnVars, mainVars>>
    /\ UNCHANGED extVars

\* 96-101, 53-64: while not STOP_EVENT: if time.time() - start_ts >= seconds:
\* speak_or_beep(alert_text); break; else time.sleep(0.05)
SlowPoll(w) ==
    /\ ~exited
    /\ swpc[w] = "poll"
    /\ IF STOP_EVENT
       THEN /\ swpc' = [swpc EXCEPT ![w] = "done"]
            /\ UNCHANGED <<swemitted, swactive, sess>>
       ELSE /\ now - swstart[w] >= SlowSec(w)
            /\ swemitted' = [swemitted EXCEPT ![w] = TRUE]
            /\ swactive' = [swactive EXCEPT ![w] = ACTIVE_TTS]
            /\ \/ /\ sess' = [sess EXCEPT ![AlertSess(w)] = "spawned"]
                  /\ swpc' = [swpc EXCEPT ![w] = "say"]
               \/ /\ swpc' = [swpc EXCEPT ![w] = IF alertBeeps THEN "tone" ELSE "done"]
                  /\ UNCHANGED sess
    /\ UNCHANGED <<mpc, turn, recording, cwaited, utterExit, firstMicAttempt,
                   noSpeechStreak, rpc, micCancel, cfgVars>>
    /\ UNCHANGED <<apc, now, swstart, doneAt>>
    /\ UNCHANGED <<flagVars, speakVars, sigVars, warnVars>>
    /\ UNCHANGED extVars

\* 34-43: beep() has written its tone
SlowTone(w) ==
    /\ ~exited
    /\ swpc[w] = "tone"
    /\ swpc' = [swpc EXCEPT ![w] = "done"]
    /\ UNCHANGED <<apc, now, swstart, swemitted, swactive, doneAt>>
    /\ UNCHANGED <<flagVars, speakVars, sigVars, warnVars, mainVars>>
    /\ UNCHANGED extVars

(***************************************************************************)
(* The network monitors.  AI_Chat starts _network_monitor (198-217) when   *)
(* it is imported (379); AI_Chat_alerts imports AI_Chat and its main       *)
(* starts network_monitor (68-91) as well (106), so a process started      *)
(* through AI_Chat_alerts.main runs both.  Monitor 0 is the one of         *)
(* AI_Chat, monitor 1 the one of AI_Chat_alerts.  How an alert is rendered *)
(* (log, tone, speech) is not followed here.                               *)
(***************************************************************************)
Monitors == 0..1

\* changes of the network the runs are followed for
MaxFlips == 3

\* AI_Chat.py 158, AI_Chat_alerts.py 28: the run sets
\* WAILO_OFFLINE_ANNOUNCE_SEC to 2 (the default is 5)
OFFLINE_ANNOUNCE_SEC == 2

\* no monitor runs
NetIdle ==
    /\ netUp = TRUE
    /\ flips = 0
    /\ npc = [m \in Monitors |-> "off"]
    /\ nlast = [m \in Monitors |-> "none"]
    /\ nsince = [m \in Monitors |-> -1]
    /\ nwake = [m \in Monitors |-> 0]
    /\ nfirst = [m \in Monitors |-> -1]
    /\ nannounced = [m \in Monitors |-> FALSE]
    /\ nearly = [m \in Monitors |-> FALSE]
    /\ nmissed = [m \in Monitors |-> FALSE]
    /\ offAlerts = 0
    /\ backAlerts = 0

\* the network goes down or comes back
NetFlip ==
    /\ ~exited
    /\ flips < MaxFlips
    /\ flips' = flips + 1
    /\ netUp' = ~netUp
    /\ IF netUp
       THEN offAlerts' = 0 /\ UNCHANGED backAlerts
       ELSE backAlerts' = 0 /\ UNCHANGED offAlerts
    /\ UNCHANGED <<npc, nlast, nsince, nwake, nfirst, nannounced, nearly, nmissed>>
    /\ UNCHANGED <<flagVars, speakVars, sigVars, warnVars, mainVars, alertVars>>
    /\ UNCHANGED <<recVars, libVars, histVars, turnVars>>

\* a second passes while a monitor runs
NetTick ==
    /\ ~exited
    /\ \E m \in Monitors : npc[m] \in {"probe", "probing"}
    /\ now < MaxClock
    /\ now' = now + 1
    /\ UNCHANGED <<apc, swpc, swstart, swemitted, swactive, doneAt>>
    /\ UNCHANGED <<flagVars, speakVars, sigVars, warnVars, mainVars, netVars>>
    /\ UNCHANGED <<recVars, libVars, histVars, turnVars>>

\* OfflineDue without the wait for the threshold
OfflineDueAtOnce(since, t) == since # -1

\* 213: offline_since and now - offline_since >= OFFLINE_ANNOUNCE_SEC
\* (offline_since holds None or a time.time(), which is never 0)
OfflineDue(since, t) == since # -1 /\ t - since >= OFFLINE_ANNOUNCE_SEC

\* 201-204 (AI_Chat_alerts.py 71-72): the head of the loop, after the sleep
\* of a second: leave on STOP_EVENT, else call net_up(), which returns
\* within its timeout of 2 s (219-224)
NetHead(m) ==
    /\ ~exited
    /\ npc[m] = "probe"
    /\ now >= nwake[m]
    /\ npc' = [npc EXCEPT ![m] = IF STOP_EVENT THEN "done" ELSE "probing"]
    /\ UNCHANGED <<nlast, nsince, nwake, nfirst, nannounced, nearly,
                   nmissed, offAlerts, backAlerts>>
    /\ UNCHANGED <<netUp, flips>>
    /\ UNCHANGED <<flagVars, speakVars, sigVars, warnVars, mainVars, alertVars>>
    /\ UNCHANGED <<recVars, libVars, histVars, turnVars>>

\* 204-217 (AI_Chat_alerts.py 72-91): net_up() has returned; the rest of
\* the round, in which STOP_EVENT is not read: on the first round only
\* record the result; later announce "back online" on a recovery, note the
\* start of an outage, and announce "offline" once the outage has lasted
\* OFFLINE_ANNOUNCE_SEC; then sleep a second
NetProbe(m) ==
    /\ ~exited
    /\ npc[m] = "probing"
    /\ LET online == netUp
           first  == nlast[m] = "none"
           back   == ~first /\ online /\ nlast[m] = "down"
           since  == IF first THEN (IF online THEN -1 ELSE now)
                     ELSE IF back THEN -1
                     ELSE IF ~online /\ nlast[m] = "up" THEN now
                     ELSE nsince[m]
           off    == ~first /\ ~online /\ OfflineDue(since, now)
           run    == IF online THEN -1
                     ELSE IF nlast[m] = "down" THEN nfirst[m] ELSE now
           told   == off \/ (~online /\ nlast[m] = "down" /\ nannounced[m])
       IN  /\ nlast' = [nlast EXCEPT ![m] = IF online THEN "up" ELSE "down"]
           /\ nsince' = [nsince EXCEPT ![m] = IF off THEN -1 ELSE since]
           /\ nwake' = [nwake EXCEPT ![m] = now + 1]
           /\ backAlerts' = IF back THEN backAlerts + 1 ELSE backAlerts
           /\ offAlerts' = IF off THEN offAlerts + 1 ELSE offAlerts
           /\ nfirst' = [nfirst EXCEPT ![m] = run]
           /\ nannounced' = [nannounced EXCEPT ![m] = told]
           /\ nearly' = [nearly EXCEPT ![m] =
                            nearly[m] \/ (off /\ now - run < OFFLINE_ANNOUNCE_SEC)]
           /\ nmissed' = [nmissed EXCEPT ![m] =
                             nmissed[m] \/ (~online /\ ~told
                                            /\ now - run >= OFFLINE_ANNOUNCE_SEC)]
           /\ npc' = [npc EXCEPT ![m] = "probe"]
    /\ UNCHANGED <<netUp, flips>>
    /\ UNCHANGED <<flagVars, speakVars, sigVars, warnVars, mainVars, alertVars>>
    /\ UNCHANGED <<recVars, libVars, histVars, turnVars>>

(***************************************************************************)
(* record() (AI_Chat.py 393-447), frame by frame.  The frames are those    *)
(* s.read(chunk) returns, the three of the pre-roll included: frame j of   *)
(* the stream is the j-th read of the call.  A feed says what the VAD      *)
(* finds in them: "free" leaves every frame open, "quiet" has no speech,   *)
(* "A" is ten frames of speech and silence after them.  The buffer is      *)
(* kept as the number of its frames (buf) and the number of those read     *)
(* before the first frame with speech (lead).                              *)
(***************************************************************************)
\* that quotient rounded up
LimitUp(max_sec) == (100 * max_sec + 2) \div 3

\* 403: limit = int(max_sec / 0.03), max_sec an int: the double 0.03 lies
\* below 3/100 by less than 2^-58, so the quotient lies above 100*max_sec/3
\* by less than one ulp and int() of it is the integer quotient
Limit(max_sec) == (100 * max_sec) \div 3

\* no call of record() is followed
RecOff ==
    [pc |-> "off", max_sec |-> 0, silence |-> FZero, feed |-> "none",
     limit |-> 0, warm |-> 0, nread |-> 0, buf |-> 0, lead |-> 0,
     spoken |-> FALSE, silent |-> 0, heard |-> FALSE, stop |-> "none",
     failed |-> FALSE, result |-> "none"]

\* 401-419: the locals after the input stream has been opened
RecordCall(max_sec, silence, feed) ==
    [RecOff EXCEPT !.pc = "warm", !.max_sec = max_sec, !.silence = silence,
                   !.feed = feed, !.limit = Limit(max_sec)]

\* 429: what vad.is_speech may say of frame j of the stream
SpeechChoices(feed, j) ==
    IF feed = "free" THEN BOOLEAN
    ELSE IF feed = "quiet" THEN {FALSE}
    ELSE {j <= 10}

\* the test of 436 with > in the place of >=
SilencePast(spoken, silent, silence) ==
    spoken /\ FLess(silence, FMulInt(silent, F0_03))

\* 436: spoken and silent * 0.03 >= silence
SilenceReached(spoken, silent, silence) ==
    spoken /\ ~FLess(FMulInt(silent, F0_03), silence)

\* a result that is bytes whatever was heard
RecResultBytes(spoken) == "bytes"

\* 442-447: None when nothing was spoken, else the bytes of buf
RecResult(spoken) == IF ~spoken THEN "None" ELSE "bytes"

\* 420-421: one s.read(chunk) of the pre-roll returns; the frame is dropped
RecWarm ==
    /\ ~exited
    /\ rec.pc = "warm"
    /\ rec' = [rec EXCEPT !.warm = @ + 1,
                          !.pc = IF rec.warm + 1 < 3 THEN "warm"
                                 ELSE IF rec.limit = 0 THEN "closed" ELSE "loop"]
    /\ UNCHANGED <<flagVars, speakVars, sigVars, warnVars, mainVars, alertVars>>
    /\ UNCHANGED <<netVars, libVars, histVars, turnVars>>

\* 425-440: one round of the loop: read a frame, append it, classify it,
\* count the silence after speech, break once it has lasted `silence`;
\* the stream is closed when the loop is left
RecFrame ==
    /\ ~exited
    /\ rec.pc = "loop"
    /\ \E sp \in SpeechChoices(rec.feed, 3 + rec.nread + 1) :
          LET spoken == rec.spoken \/ sp
              silent == IF sp THEN 0
                        ELSE IF rec.spoken THEN rec.silent + 1 ELSE rec.silent
              brk    == SilenceReached(spoken, silent, rec.silence)
              last   == rec.nread + 1 = rec.limit
          IN  rec' = [rec EXCEPT !.nread = @ + 1,
                                 !.buf = @ + 1,
                                 !.lead = IF spoken THEN @ ELSE @ + 1,
                                 !.spoken = spoken,
                                 !.silent = silent,
                                 !.heard = @ \/ sp,
                                 !.stop = IF brk THEN "break"
                                          ELSE IF last THEN "limit" ELSE "none",
                                 !.pc = IF brk \/ last THEN "closed" ELSE "loop"]
    /\ UNCHANGED <<flagVars, speakVars, sigVars, warnVars, mainVars, alertVars>>
    /\ UNCHANGED <<netVars, libVars, histVars, turnVars>>

\* a failed read that comes back as the result None
RecRaiseAsNone ==
    /\ ~exited
    /\ rec.pc \in {"warm", "loop"}
    /\ rec' = [rec EXCEPT !.pc = "returned", !.failed = TRUE, !.result = "None"]
    /\ UNCHANGED <<flagVars, speakVars, sigVars, warnVars, mainVars, alertVars>>
    /\ UNCHANGED <<netVars, libVars, histVars, turnVars>>

\* 421, 426: s.read(chunk) raises (PortAudioError); nothing in record() or
\* in log_duration (106-115) catches it: the with block closes the stream
\* and the exception leaves record()
RecRaise ==
    /\ ~exited
    /\ rec.pc \in {"warm", "loop"}
    /\ rec' = [rec EXCEPT !.pc = "raised", !.failed = TRUE, !.result = "error"]
    /\ UNCHANGED <<flagVars, speakVars, sigVars, warnVars, mainVars, alertVars>>
    /\ UNCHANGED <<netVars, libVars, histVars, turnVars>>

\* 442-447: record() returns
RecReturn ==
    /\ ~exited
    /\ rec.pc = "closed"
    /\ rec' = [rec EXCEPT !.pc = "returned", !.result = RecResult(rec.spoken)]
    /\ UNCHANGED <<flagVars, speakVars, sigVars, warnVars, mainVars, alertVars>>
    /\ UNCHANGED <<netVars, libVars, histVars, turnVars>>

\* 770: main calls record() with the defaults, max_sec = 60 and
\* silence = 0.8
MainRecordCall ==
    /\ ~exited
    /\ mpc = "record"
    /\ recording' = TRUE
    /\ mpc' = "recording"
    /\ \E feed \in {"quiet", "A"} : rec' = RecordCall(60, F0_8, feed)
    /\ UNCHANGED <<turn, sess, cwaited, utterExit, firstMicAttempt,
                   noSpeechStreak, rpc, micCancel, cfgVars>>
    /\ UNCHANGED <<flagVars, speakVars, sigVars, warnVars>>
    /\ UNCHANGED <<alertVars, netVars, libVars, histVars, turnVars>>

\* 770-788: that call is over, by a return or by an exception
MainRecordReturn ==
    /\ ~exited
    /\ mpc = "recording"
    /\ rec.pc \in {"returned", "raised"}
    /\ MainAfterRecord(rec.result)
    /\ rec' = [rec EXCEPT !.pc = "off"]
    /\ UNCHANGED <<turn, sess, cwaited, utterExit, rpc, cfgVars>>
    /\ UNCHANGED <<hpc, hwaited, hpolls, flagVars, speakVars, warnVars>>
    /\ UNCHANGED <<alertVars, netVars, libVars, utter, reply, quiet, gated>>

\* main has made no capture
HistIdle ==
    /\ lastRaw = "none"
    /\ emptyRun = 0
    /\ louder = FALSE

\* main has started no call, and the gate is open
TurnIdle ==
    /\ calls = <<>>
    /\ utter = <<>>
    /\ reply = "none"
    /\ quiet = FALSE
    /\ gated = FALSE

\* streaming_speak has not come to its deadline
DeadIdle ==
    /\ dpc = "idle"
    /\ originalLen = 0
    /\ textLen = 0
    /\ ttsTimeoutEnv = ""
    /\ ttsTimeout = -1

\* 62: the event is created clear; the microphone opens at once
MicIdle ==
    /\ MIC_OPENED_EVENT = FALSE
    /\ micOpenTook = 0

\* a WailoAPI object without credentials on which nothing was called
ApiIdle ==
    /\ qpc = "idle"
    /\ qkind = "none"
    /\ token = "none"
    /\ auth_failed = FALSE
    /\ hasCreds = FALSE
    /\ sent = 0
    /\ reauthOk = FALSE
    /\ status = "none"
    /\ result = "none"
    /\ ncalls = 0
    /\ authAfterFailed = FALSE

\* no transfer is announced
NoXfer == [hdr |-> "none", n |-> 0, eof |-> FALSE]

\* 35, 450-460: the token characteristic after its construction; no client
\* writes to it
BleIdle ==
    /\ bpc = "serving"
    /\ xfer = NoXfer
    /\ xpos = -1
    /\ nxfers = 0
    /\ total_chunks = -1
    /\ received_chunks = <<>>
    /\ runs = 0
    /\ complete_token = <<>>
    /\ HANDOFF_COMPLETED = FALSE
    /\ exitTimer = FALSE

\* no call that is followed on its own has started
LibIdle == DeadIdle /\ MicIdle /\ ApiIdle /\ BleIdle

\* nothing of the parts that the turn loops leave alone has started
ExtIdle == NetIdle /\ rec = RecOff /\ LibIdle /\ HistIdle /\ TurnIdle

(***************************************************************************)
(* SpecSpeak: one streaming_speak call; a signal may set STOP_EVENT at any *)
(* point of it.  The handler's wait and the exit of the process are left   *)
(* to SpecSignal: they only cut the call short.                            *)
(***************************************************************************)
InitSpeak ==
    /\ STOP_EVENT = FALSE
    /\ ACTIVE_TTS = FALSE
    /\ SpeakInit
    /\ chunkLimit = MaxChunks
    /\ speakInMain = FALSE
    /\ SigInit
    /\ WarnIdle
    /\ alertBeeps = TRUE
    /\ MainIdle
    /\ AlertsIdle
    /\ ExtIdle

NextSpeak ==
    \/ SpeakOpen
    \/ SpeakBegin
    \/ SpeakChunk
    \/ SpeakStreamEnd
    \/ SpeakStreamRaise
    \/ SpeakDrainCheck
    \/ SpeakDrainWrite
    \/ SpeakFlushCheck
    \/ SpeakFlushWrite
    \/ SpeakFinally
    \/ SpeakWorkerFinally
    \/ HandleSignal

SpecSpeak == InitSpeak /\ [][NextSpeak]_vars

(***************************************************************************)
(* SpecPrebuffer: one streaming_speak call with the default prebuffer of   *)
(* 80 ms, whose stream delivers either responses of 4000 bytes, as many as *)
(* MaxChunks, or as many as forty responses of 100 bytes.                  *)
(***************************************************************************)
InitPrebuffer ==
    /\ STOP_EVENT = FALSE
    /\ ACTIVE_TTS = FALSE
    /\ spc = "entry"
    /\ prebufferMs = 80
    /\ \/ chunkSizes = {4000} /\ chunkLimit = MaxChunks
       \/ chunkSizes = {100} /\ chunkLimit = 40
    /\ speakInMain = FALSE
    /\ spokenDone = FALSE
    /\ buffer = 0
    /\ received = 0
    /\ started = FALSE
    /\ nchunks = 0
    /\ written = 0
    /\ dropped = 0
    /\ streamEnd = "open"
    /\ outcome = "none"
    /\ stopWrites = 0
    /\ stopPhase = "none"
    /\ SigInit
    /\ WarnIdle
    /\ alertBeeps = TRUE
    /\ MainIdle
    /\ AlertsIdle
    /\ ExtIdle

SpecPrebuffer == InitPrebuffer /\ [][NextSpeak]_vars

(***************************************************************************)
(* SpecSignal: the signal handler beside one streaming_speak call, which   *)
(* runs on a worker thread or on the main thread.                          *)
(***************************************************************************)
InitSignal ==
    /\ STOP_EVENT = FALSE
    /\ ACTIVE_TTS = FALSE
    /\ SpeakInit
    /\ chunkLimit = MaxSigChunks
    /\ SigInit
    /\ WarnIdle
    /\ alertBeeps = TRUE
    /\ MainIdle
    /\ AlertsIdle
    /\ ExtIdle

HandlerStep ==
    \/ HandleTest
    \/ HandleWait
    \/ HandleExit

NextSignal ==
    \/ SpeakOpen
    \/ SpeakBegin
    \/ SpeakChunk
    \/ SpeakStreamEnd
    \/ SpeakStreamRaise
    \/ SpeakDrainCheck
    \/ SpeakDrainWrite
    \/ SpeakFlushCheck
    \/ SpeakFlushWrite
    \/ SpeakFinally
    \/ SpeakWorkerFinally
    \/ HandleSignal
    \/ HandleTest
    \/ HandleWait
    \/ HandleExit

\* once entered the handler runs to its end: each of its steps is a test or a
\* sleep of 50 ms on the main thread
SpecSignal == InitSignal /\ [][NextSignal]_vars /\ WF_vars(HandlerStep)

(***************************************************************************)
(* SpecWarn: one watcher; its caller sets cancel_event at any time, and a  *)
(* signal may arrive at any time.                                          *)
(***************************************************************************)
\* values of delay_sec the watcher is started with (2.0 is TTS_START_WARN_SEC)
WarnDelayChoices == {FZero, F0_05, FInt(2)}

InitWarn ==
    /\ STOP_EVENT = FALSE
    /\ ACTIVE_TTS = FALSE
    /\ SpeakInit
    /\ chunkLimit = 0
    /\ speakInMain = FALSE
    /\ SigInit
    /\ alertBeeps \in BOOLEAN
    /\ \E d \in WarnDelayChoices :
          /\ wpc = [w \in Watchers |-> IF w = 0 THEN "loop" ELSE "none"]
          /\ wdelay = [w \in Watchers |-> IF w = 0 THEN d ELSE FZero]
    /\ wwaited = [w \in Watchers |-> FZero]
    /\ wcancel = [w \in Watchers |-> FALSE]
    /\ wemitted = [w \in Watchers |-> 0]
    /\ wexpiry = [w \in Watchers |-> "pending"]
    /\ wobserved = [w \in Watchers |-> FALSE]
    /\ MainIdle
    /\ AlertsIdle
    /\ ExtIdle

\* the caller's cancel_event.set()
CancelSet ==
    /\ ~exited
    /\ \E w \in Watchers :
          /\ wpc[w] # "none"
          /\ ~wcancel[w]
          /\ wcancel' = [wcancel EXCEPT ![w] = TRUE]
    /\ UNCHANGED <<wpc, wdelay, wwaited, wemitted, wexpiry, wobserved, alertBeeps>>
    /\ UNCHANGED <<flagVars, speakVars, sigVars, mainVars>>
    /\ UNCHANGED <<alertVars, extVars>>

WarnLoopStep == \E w \in Watchers : WarnLoop(w)

WarnCheckStep == \E w \in Watchers : WarnCheck(w)

WarnAlertStep == \E w \in Watchers : WarnAlert(w)

WarnToneStep == \E w \in Watchers : WarnTone(w)

NextWarn ==
    \/ WarnLoopStep
    \/ WarnCheckStep
    \/ WarnAlertStep
    \/ WarnToneStep
    \/ CancelSet
    \/ HandleSignal
    \/ HandleTest
    \/ HandleExit

SpecWarn == InitWarn /\ [][NextWarn]_vars

(***************************************************************************)
(* Spec: the turn loop of AI_Chat.main with the playback threads it        *)
(* starts.  A _warn_after watcher and a mic_ready_worker write nothing     *)
(* that main or a playback thread reads: main starts them here, and the    *)
(* steps of a watcher thread are followed in SpecWarn.                     *)
(***************************************************************************)
Init ==
    /\ STOP_EVENT = FALSE
    /\ ACTIVE_TTS = FALSE
    /\ SpeakInit
    /\ chunkLimit = 0
    /\ speakInMain = FALSE
    /\ SigInit
    /\ WarnIdle
    /\ alertBeeps \in BOOLEAN
    /\ mpc = "start"
    /\ turn = 0
    /\ turnLimit = MaxTurns
    /\ sess = [k \in SessIds |-> "none"]
    /\ recording = FALSE
    /\ cwaited = FZero
    /\ utterExit = FALSE
    /\ firstMicAttempt = TRUE
    /\ noSpeechStreak = 0
    /\ rpc = [t \in Turns |-> "none"]
    /\ micCancel = [t \in Turns |-> FALSE]
    /\ listenAfterTts \in BOOLEAN
    /\ listenWait = LISTEN_WAIT_SEC
    /\ exitOnNoMic \in BOOLEAN
    /\ AlertsIdle
    /\ ExtIdle

SessOpenStep == \E k \in SessIds : SessOpen(k)

SessBeginStep == \E k \in SessIds : SessBegin(k)

SessWriteStep == \E k \in SessIds : SessWrite(k)

SessWrittenStep == \E k \in SessIds : SessWritten(k)

SessEndStep == \E k \in SessIds : SessEnd(k)

Next ==
    \/ MainStart
    \/ MainIntroWait
    \/ MainTop
    \/ MainRecordOpen
    \/ MainRecordDone
    \/ MainTranscribe
    \/ MainThink
    \/ MainCooldown
    \/ MainGap
    \/ MainToneDone
    \/ MainByeDone
    \/ SessOpenStep
    \/ SessBeginStep
    \/ SessWriteStep
    \/ SessWrittenStep
    \/ SessEndStep

Spec == Init /\ [][Next]_vars

(***************************************************************************)
(* SpecTurn: one turn of AI_Chat.main with the playback threads it starts, *)
(* under either setting of LISTEN_AFTER_TTS, two settings of               *)
(* WAILO_LISTEN_WAIT_SEC, and a parental gate that opens and closes.       *)
(***************************************************************************)
\* 514: the settings of WAILO_LISTEN_WAIT_SEC of the runs: 0.1 and 0.4
ListenWaitChoices == {F0_1, F0_4}

\* the turns main is followed through in SpecTurn
TurnsFollowed == 1

\* 279-295: par_loop replaces PARENTAL, or the clock enters or leaves a
\* schedule: silenced() changes its answer
ParentalFlip ==
    /\ ~exited
    /\ mpc \notin {"off", "end", "crashed", "fatal"}
    /\ quiet' = ~quiet
    /\ UNCHANGED <<flagVars, speakVars, sigVars, warnVars, mainVars>>
    /\ UNCHANGED <<alertVars, netVars, libVars, recVars, histVars, calls, utter, reply, gated>>

InitTurn ==
    /\ STOP_EVENT = FALSE
    /\ ACTIVE_TTS = FALSE
    /\ SpeakInit
    /\ chunkLimit = 0
    /\ speakInMain = FALSE
    /\ SigInit
    /\ WarnIdle
    /\ alertBeeps \in BOOLEAN
    /\ mpc = "start"
    /\ turn = 0
    /\ turnLimit = TurnsFollowed
    /\ sess = [k \in SessIds |-> "none"]
    /\ recording = FALSE
    /\ cwaited = FZero
    /\ utterExit = FALSE
    /\ firstMicAttempt = TRUE
    /\ noSpeechStreak = 0
    /\ rpc = [t \in Turns |-> "none"]
    /\ micCancel = [t \in Turns |-> FALSE]
    /\ listenAfterTts \in BOOLEAN
    /\ listenWait \in ListenWaitChoices
    /\ exitOnNoMic = FALSE
    /\ AlertsIdle
    /\ NetIdle
    /\ rec = RecOff
    /\ LibIdle
    /\ HistIdle
    /\ calls = <<>>
    /\ utter = <<>>
    /\ reply = "none"
    /\ quiet \in BOOLEAN
    /\ gated = FALSE

NextTurn ==
    \/ Next
    \/ ParentalFlip

SpecTurn == InitTurn /\ [][NextTurn]_vars

(***************************************************************************)
(* SpecAlerts: the turn loop of AI_Chat_alerts.main with its warn_if_slow  *)
(* workers and the playback threads that it and they start.                *)
(***************************************************************************)
InitAlerts ==
    /\ STOP_EVENT = FALSE
    /\ ACTIVE_TTS = FALSE
    /\ SpeakInit
    /\ chunkLimit = 0
    /\ speakInMain = FALSE
    /\ SigInit
    /\ WarnIdle
    /\ alertBeeps \in BOOLEAN
    /\ mpc = "off"
    /\ turn = 0
    /\ turnLimit = AlertTurns
    /\ sess = [k \in SessIds |-> "none"]
    /\ recording = FALSE
    /\ cwaited = FZero
    /\ utterExit = FALSE
    /\ firstMicAttempt = TRUE
    /\ noSpeechStreak = 0
    /\ rpc = [t \in Turns |-> "none"]
    /\ micCancel = [t \in Turns |-> FALSE]
    /\ listenAfterTts = TRUE
    /\ listenWait = LISTEN_WAIT_SEC
    /\ exitOnNoMic = FALSE
    /\ apc = "top"
    /\ now = 0
    /\ swpc = [w \in SlowIds |-> "none"]
    /\ swstart = [w \in SlowIds |-> 0]
    /\ swemitted = [w \in SlowIds |-> FALSE]
    /\ swactive = [w \in SlowIds |-> FALSE]
    /\ doneAt = [w \in SlowIds |-> -1]
    /\ NetIdle
    /\ rec = RecOff
    /\ LibIdle
    /\ HistIdle
    /\ calls = <<>>
    /\ utter = <<>>
    /\ reply = "none"
    /\ quiet \in BOOLEAN
    /\ gated = FALSE

SlowPollStep == \E w \in SlowIds : SlowPoll(w)

SlowToneStep == \E w \in SlowIds : SlowTone(w)

NextAlerts ==
    \/ AlertsTop
    \/ AlertsRecordDone
    \/ AlertsTranscribe
    \/ AlertsThink
    \/ AlertsWait
    \/ AlertsByeDone
    \/ AlertsPrompt
    \/ AlertsPromptDone
    \/ SlowPollStep
    \/ SlowToneStep
    \/ Tick
    \/ SessOpenStep
    \/ SessBeginStep
    \/ SessWriteStep
    \/ SessWrittenStep
    \/ SessEndStep

SpecAlerts == InitAlerts /\ [][NextAlerts]_vars

(***************************************************************************)
(* SpecNet: the network monitors of a process started through AI_Chat.main *)
(* (monitor 0 alone) or through AI_Chat_alerts.main (both), from the       *)
(* moment main is entered, with a network that goes down and comes back    *)
(* and a signal that may arrive at any time.                               *)
(***************************************************************************)
InitNet ==
    /\ STOP_EVENT = FALSE
    /\ ACTIVE_TTS = FALSE
    /\ SpeakInit
    /\ chunkLimit = 0
    /\ speakInMain = FALSE
    /\ SigInit
    /\ WarnIdle
    /\ alertBeeps = TRUE
    /\ MainIdle
    /\ AlertsIdle
    /\ netUp \in BOOLEAN
    /\ flips = 0
    /\ \E alerts \in BOOLEAN :
          npc = [m \in Monitors |-> IF m = 0 \/ alerts THEN "probe" ELSE "off"]
    /\ nlast = [m \in Monitors |-> "none"]
    /\ nsince = [m \in Monitors |-> -1]
    /\ nwake = [m \in Monitors |-> 0]
    /\ nfirst = [m \in Monitors |-> -1]
    /\ nannounced = [m \in Monitors |-> FALSE]
    /\ nearly = [m \in Monitors |-> FALSE]
    /\ nmissed = [m \in Monitors |-> FALSE]
    /\ offAlerts = 0
    /\ backAlerts = 0
    /\ rec = RecOff
    /\ LibIdle
    /\ HistIdle
    /\ TurnIdle

NetHeadStep == \E m \in Monitors : NetHead(m)

NetProbeStep == \E m \in Monitors : NetProbe(m)

NextNet ==
    \/ NetHeadStep
    \/ NetProbeStep
    \/ NetFlip
    \/ NetTick
    \/ HandleSignal

SpecNet == InitNet /\ [][NextNet]_vars

(***************************************************************************)
(* SpecRecord: one call of record().  Either main is followed from its     *)
(* entry to the end of its first capture, which it makes with the defaults *)
(* (60 s, 0.8 s) on a feed without speech or on feed "A"; or record() is   *)
(* called by itself with max_sec up to MaxSec, one of three values of      *)
(* silence and a free feed.  A read of the device may fail at any frame.   *)
(* The threads main starts are not scheduled.                              *)
(***************************************************************************)
\* largest max_sec of the calls with a free feed
MaxSec == 1

\* the values of silence of those calls
SilenceChoices == {F0_06, F0_8, F0_9}

InitRecord ==
    /\ STOP_EVENT = FALSE
    /\ ACTIVE_TTS = FALSE
    /\ SpeakInit
    /\ chunkLimit = 0
    /\ speakInMain = FALSE
    /\ SigInit
    /\ WarnIdle
    /\ alertBeeps = TRUE
    /\ AlertsIdle
    /\ NetIdle
    /\ LibIdle
    /\ HistIdle
    /\ TurnIdle
    /\ \/ /\ mpc = "start"
          /\ turn = 0
          /\ turnLimit = 1
          /\ sess = [k \in SessIds |-> "none"]
          /\ recording = FALSE
          /\ cwaited = FZero
          /\ utterExit = FALSE
          /\ firstMicAttempt = TRUE
          /\ noSpeechStreak = 0
          /\ rpc = [t \in Turns |-> "none"]
          /\ micCancel = [t \in Turns |-> FALSE]
          /\ listenAfterTts = TRUE
          /\ listenWait = LISTEN_WAIT_SEC
          /\ exitOnNoMic \in BOOLEAN
          /\ rec = RecOff
       \/ /\ MainIdle
          /\ \E max_sec \in 1..MaxSec, silence \in SilenceChoices :
                rec = RecordCall(max_sec, silence, "free")

NextRecord ==
    \/ MainStart
    \/ MainIntroWait
    \/ MainTop
    \/ MainRecordCall
    \/ RecWarm
    \/ RecFrame
    \/ RecRaise
    \/ RecReturn
    \/ MainRecordReturn

SpecRecord == InitRecord /\ [][NextRecord]_vars

(***************************************************************************)
(* SpecListen: the main thread of AI_Chat.main alone, over MaxListens      *)
(* listen attempts, each record() giving bytes, None or an exception.  The *)
(* threads main starts are not scheduled, so no playback is under way when *)
(* main listens again and the farewell of 836 does not return.             *)
(***************************************************************************)
InitListen ==
    /\ STOP_EVENT = FALSE
    /\ ACTIVE_TTS = FALSE
    /\ SpeakInit
    /\ chunkLimit = 0
    /\ speakInMain = FALSE
    /\ SigInit
    /\ WarnIdle
    /\ alertBeeps \in BOOLEAN
    /\ mpc = "start"
    /\ turn = 0
    /\ turnLimit = MaxListens
    /\ sess = [k \in SessIds |-> "none"]
    /\ recording = FALSE
    /\ cwaited = FZero
    /\ utterExit = FALSE
    /\ firstMicAttempt = TRUE
    /\ noSpeechStreak = 0
    /\ rpc = [t \in Turns |-> "none"]
    /\ micCancel = [t \in Turns |-> FALSE]
    /\ listenAfterTts \in BOOLEAN
    /\ listenWait = LISTEN_WAIT_SEC
    /\ exitOnNoMic \in BOOLEAN
    /\ AlertsIdle
    /\ ExtIdle

NextListen ==
    \/ MainStart
    \/ MainIntroWait
    \/ MainTop
    \/ MainRecordOpen
    \/ MainRecordDone
    \/ MainTranscribe
    \/ MainThink
    \/ MainCooldown
    \/ MainGap
    \/ MainToneDone

SpecListen == InitListen /\ [][NextListen]_vars

(***************************************************************************)
(* Properties of streaming_speak (SpecSpeak).                              *)
(***************************************************************************)
\* a device write is being issued
Writing == spc \in {"dwrite", "fwrite"}

\* C3, as stated: no device write is issued before the bytes buffered so far
\* have reached the prebuffer threshold, short streams included.
C3_NoWriteBelowThreshold ==
    Writing => received >= PrebufferBytes(prebufferMs)

\* C3, amended: a device write below the prebuffer threshold is issued only by
\* the final flush, after the stream has ended normally; while responses are
\* still arriving no write precedes the threshold.
C3_NoWriteBelowThresholdUntilStreamEnd ==
    (Writing /\ received < PrebufferBytes(prebufferMs))
        => (spc = "fwrite" /\ streamEnd = "eos")

\* C3 witness: with a 200 ms prebuffer a first response of 8200 bytes (more than
\* a block, less than the threshold) was held back, and the block is written only
\* after the second response has carried the buffer over the threshold
C3_Witness ==
    /\ spc = "dwrite"
    /\ prebufferMs = 200
    /\ nchunks = 2
    /\ received = 8200 + 3839

\* C4: once STOP_EVENT is set, a streaming_speak call issues at most one further
\* device write (the block whose stop check had already passed), wherever in the
\* call the stop arrives.
C4_AtMostOneWriteAfterStop == stopWrites <= 1

\* C4 witness: the stop arrived between a block's stop check and its write; that
\* block was written, the call ended cancelled and audio is left unwritten
C4_Witness ==
    /\ spc = "done"
    /\ stopPhase = "dwrite"
    /\ stopWrites = 1
    /\ outcome = "cancelled"
    /\ buffer > 0

\* C7, as stated: a call that ends on DeadlineExceeded (and is not stopped) has
\* flushed to the device what it had buffered: nothing is left in the buffer.
C7_TimeoutFlushesBuffer ==
    (spc = "done" /\ outcome = "timedout" /\ ~STOP_EVENT) => buffer = 0

(***************************************************************************)
(* Properties of the signal handler (SpecSignal).                          *)
(***************************************************************************)
\* C5, as stated: after a stop signal the handler waits at most 60 polls of
\* 50 ms (3.0 s) before the process exits.
C5_GraceSixtyPolls == hpolls <= 60

\* C5, amended: after a stop signal the handler sleeps at most 61 times 50 ms
\* (waited, summed in doubles, is still below 3.0 after 60 additions of 0.05),
\* it sleeps again only if ACTIVE_TTS was set at its test, and the process then
\* exits, also when the call never clears ACTIVE_TTS.
C5_GraceWindow ==
    /\ [](hpolls <= 61)
    /\ [][hpolls' > hpolls => ACTIVE_TTS]_vars
    /\ (STOP_EVENT ~> exited)

\* C5 witness: the process has exited after the full wait while the call, stuck
\* waiting for a response, still holds ACTIVE_TTS
C5_Witness ==
    /\ exited
    /\ hpolls = 61
    /\ ACTIVE_TTS
    /\ spc = "next"

(***************************************************************************)
(* Properties of the deadline watcher (SpecWarn).                          *)
(***************************************************************************)
\* C8, as stated: a watcher that has ended has emitted its alert exactly once if
\* neither cancel_event nor STOP_EVENT was set when its delay ran out, and not
\* at all otherwise.
C8_OnceIffNothingSetAtExpiry ==
    \A w \in Watchers :
        wpc[w] = "done" =>
            wemitted[w] = (IF wexpiry[w] = "clean" THEN 1 ELSE 0)

\* C8, amended: a watcher emits at most once, and only if neither event was set
\* when its delay ran out; it emits exactly once if neither event is set up to
\* its final test (an event set between the end of the delay and that test
\* suppresses the alert); it never emits once it has read an event as set; and
\* its wait ends: waited never exceeds delay_sec by more than one step.
C8_OnceUnlessSetBeforeFinalTest ==
    \A w \in Watchers :
        /\ wemitted[w] <= 1
        /\ (wemitted[w] = 1 => wexpiry[w] = "clean")
        /\ (wobserved[w] => wemitted[w] = 0)
        /\ ((wpc[w] \in {"tone", "done"} /\ ~wcancel[w] /\ ~STOP_EVENT)
               => wemitted[w] = 1)
        /\ (wpc[w] = "loop" => ~FLess(FAdd(wdelay[w], PollStep), wwaited[w]))

\* C8 witness: a watcher started with a delay of 2.0 s has slept through it,
\* found neither event set and emitted its alert once
C8_Witness ==
    /\ wpc[0] = "done"
    /\ wdelay[0] = FInt(2)
    /\ wemitted[0] = 1
    /\ ~wcancel[0]
    /\ ~STOP_EVENT

(***************************************************************************)
(* Properties of the turn loop (Spec).                                     *)
(***************************************************************************)
\* the call k is between ACTIVE_TTS.set() and ACTIVE_TTS.clear()
Playing(k) == sess[k] \in {"active", "writing"}

\* C1: at most one playback session is active at any time: no two
\* streaming_speak calls (intro, reply of a turn, farewell) are between their
\* start and their end at once.
C1_OnePlaybackSession ==
    Cardinality({k \in SessIds : Playing(k)}) <= 1

\* C2: with LISTEN_AFTER_TTS on, record() never holds the input stream open
\* while the playback of a reply is writing to the output device.
C2_HalfDuplex ==
    listenAfterTts => ~(recording /\ \E k \in Turns : sess[k] = "writing")

\* C6: ACTIVE_TTS is set exactly while some streaming_speak call is between
\* its start and its end.
C6_FlagTracksSessions ==
    ACTIVE_TTS <=> \E k \in SessIds : Playing(k)

(***************************************************************************)
(* Properties of the alerts entry point (SpecAlerts).                      *)
(***************************************************************************)
\* the workers that watch a call of main: transcribe and chat_gpt
CallWatchers == {w \in SlowIds : w % 3 # 2}

\* C9: a warn_if_slow worker emits its alert only if the call it watches
\* has not returned within the threshold: a worker whose call returned
\* earlier than that emits nothing.
C9_SilentWhenCompletedInTime ==
    \A w \in CallWatchers :
        (doneAt[w] # -1 /\ doneAt[w] - swstart[w] < SlowSec(w)) => ~swemitted[w]

\* C10: no warn_if_slow worker emits a tone or a spoken phrase while
\* ACTIVE_TTS is set.
C10_NoAlertAudioWhileActive ==
    \A w \in SlowIds : swemitted[w] => ~swactive[w]


(***************************************************************************)
(* Properties of the network monitors (SpecNet).                           *)
(***************************************************************************)

\* C11: in a process started through AI_Chat.main or AI_Chat_alerts.main, at
\* most one "offline" alert is emitted in one contiguous outage and at most
\* one "back online" alert for one recovery.
C11_OneAlertPerOutage == offAlerts <= 1 /\ backAlerts <= 1

\* C12: a monitor announces "offline" only at a failed probe that comes at
\* least OFFLINE_ANNOUNCE_SEC after the first failed probe of the run of
\* failed probes it is in (so never after one failed probe alone), and no
\* failed probe that late leaves the run unannounced.
C12_DebouncedOffline ==
    \A m \in Monitors : ~nearly[m] /\ ~nmissed[m]

\* a monitor that met the outage at its first probe has announced it, the
\* threshold after that probe
C12_Witness ==
    \E m \in Monitors :
        /\ nannounced[m]
        /\ nfirst[m] = 0
        /\ now - nfirst[m] >= OFFLINE_ANNOUNCE_SEC

(***************************************************************************)
(* Properties of record() (SpecRecord).                                    *)
(***************************************************************************)

\* C13: when no frame of the loop had speech, record() reads the full
\* int(max_sec / 0.03) frames and returns None: it returns None after no
\* fewer frames, and it returns nothing else.
C13_QuietReadsFullLimit ==
    /\ (rec.pc = "returned" /\ ~rec.heard) =>
           (rec.result = "None" /\ rec.nread = (100 * rec.max_sec) \div 3)
    /\ rec.result = "None" => rec.nread = (100 * rec.max_sec) \div 3

\* main's first call, with the defaults, has read 2000 frames without speech
C13_Witness ==
    /\ rec.pc = "returned"
    /\ ~rec.heard
    /\ rec.max_sec = 60
    /\ rec.nread = 2000

\* `silence` in hundredths of a second
Centi(silence) ==
    IF silence = F0_06 THEN 6 ELSE IF silence = F0_8 THEN 80 ELSE 90

\* the least number of 30 ms frames that last `silence` or longer
FramesFor(silence) == (Centi(silence) + 2) \div 3

\* C14 as stated: after speech, record() stops at the first frame at which
\* the frames of silence since the last speech frame last `silence` or
\* longer, and returns the frames up to that one; with the defaults, ten
\* speech frames and thirty of silence stop it after the 27th frame of
\* silence with 37 frames.
C14_StopsAtSilenceThreshold ==
    /\ (rec.pc = "loop" /\ rec.spoken) => rec.silent < FramesFor(rec.silence)
    /\ rec.stop = "break" =>
           (rec.silent = FramesFor(rec.silence) /\ rec.buf = rec.nread)
    /\ (rec.pc = "returned" /\ rec.feed = "A") =>
           (rec.silent = 27 /\ rec.buf = 37)

\* the frames of silence at which silent * 0.03 >= silence holds in doubles:
\* 30 * 0.03 is 0.8999999999999999, below 0.9
DoubleFramesFor(silence) ==
    IF silence = F0_9 THEN FramesFor(silence) + 1 ELSE FramesFor(silence)

\* C14: after speech, record() stops at the first frame at which the double
\* silent * 0.03 is `silence` or more (for 0.9 s the 31st frame of silence,
\* not the 30th) and returns the frames of the loop up to that one; with
\* the defaults, a stream of ten speech frames and thirty of silence, its
\* first three dropped by the pre-roll, stops it after the 27th frame of
\* silence with 34 frames.
C14_StopsAtDoubleThreshold ==
    /\ (rec.pc = "loop" /\ rec.spoken) => rec.silent < DoubleFramesFor(rec.silence)
    /\ rec.stop = "break" =>
           (rec.silent = DoubleFramesFor(rec.silence) /\ rec.buf = rec.nread)
    /\ (rec.pc = "returned" /\ rec.feed = "A") =>
           (rec.silent = 27 /\ rec.buf = 34 /\ rec.result = "bytes")

\* main's first call has returned on feed "A", stopped by the silence
C14_Witness ==
    /\ rec.pc = "returned"
    /\ rec.feed = "A"
    /\ rec.stop = "break"

\* C15: the buffer record() returns holds no frame read before the first
\* frame with speech.
C15_StartsAtFirstSpeech ==
    rec.result = "bytes" => rec.lead = 0

\* C16: after the three frames of the pre-roll record() reads at most
\* int(max_sec / 0.03) frames; when speech was heard and the loop ran to
\* that limit, it returns all the frames it read.
C16_StopsByLimit ==
    /\ rec.warm <= 3
    /\ rec.nread <= (100 * rec.max_sec) \div 3
    /\ rec.pc = "loop" => rec.nread < (100 * rec.max_sec) \div 3
    /\ (rec.pc = "returned" /\ rec.stop = "limit" /\ rec.heard) =>
           (rec.result = "bytes" /\ rec.buf = (100 * rec.max_sec) \div 3)

\* a call with max_sec = 1 heard speech and ran to its 33 frames
C16_Witness ==
    /\ rec.pc = "returned"
    /\ rec.stop = "limit"
    /\ rec.heard
    /\ rec.max_sec = 1
    /\ rec.buf = 33

\* C17: a read of the device that fails ends record() by an exception and
\* never by a result: main does not count it in the streak, does not take
\* it for silence on the first attempt, and ends with the exception.
C17_ReadErrorIsFailure ==
    rec.failed =>
        /\ rec.result = "error"
        /\ lastRaw \in {"none", "error"}
        /\ noSpeechStreak = 0
        /\ emptyRun = 0
        /\ mpc \in {"off", "recording", "crashed"}

\* with EXIT_ON_NO_MIC on, main has ended by the exception of a failed read
C17_Witness ==
    /\ rec.failed
    /\ exitOnNoMic
    /\ mpc = "crashed"

(***************************************************************************)
(* Properties of the captures of main (SpecListen).                        *)
(***************************************************************************)

\* C18: the "speak louder" alert is made exactly on capture number
\* NO_SPEECH_REPEATS_MAX of a run of captures without speech, and the
\* streak is not set back to 0 by that capture but by the next one without
\* speech.
C18_ResetOnCaptureAfterLimit ==
    /\ louder <=> (lastRaw = "None" /\ emptyRun = NO_SPEECH_REPEATS_MAX
                   /\ mpc # "fatal")
    /\ (lastRaw = "None" /\ emptyRun = NO_SPEECH_REPEATS_MAX /\ mpc # "fatal")
           => noSpeechStreak = NO_SPEECH_REPEATS_MAX
    /\ (lastRaw = "None" /\ emptyRun = NO_SPEECH_REPEATS_MAX + 1)
           => noSpeechStreak = 0

\* C19: the streak counts the captures without speech since the last one
\* with speech: a capture with speech sets it to 0, and the alert is made
\* only when the last NO_SPEECH_REPEATS_MAX captures were all without
\* speech.
C19_StreakCountsConsecutive ==
    /\ lastRaw = "bytes" => noSpeechStreak = 0
    /\ louder => emptyRun >= NO_SPEECH_REPEATS_MAX

\* C20: the process ends by sys.exit(1) exactly when EXIT_ON_NO_MIC is on
\* and the first listen attempt gave None: never on a later attempt, never
\* with the option off.
C20_FatalOnlyOnFirstSilence ==
    /\ mpc = "fatal" <=> (exitOnNoMic /\ turn = 1 /\ lastRaw = "None")
    /\ mpc = "fatal" => exited

\* the first attempt gave None and the process has ended by sys.exit(1)
C20_Witness ==
    /\ mpc = "fatal"
    /\ exited
    /\ turn = 1
    /\ lastRaw = "None"

\* c is among the calls main has started in the turn
Called(c) == \E i \in DOMAIN calls : calls[i] = c

\* main started every call a of the turn before the first call b of it
CalledBefore(a, b) ==
    \A j \in DOMAIN calls : calls[j] = b =>
        /\ \E i \in 1..(j - 1) : calls[i] = a
        /\ \A i \in j..Len(calls) : calls[i] # a

\* C21: within a turn main calls chat_gpt only after transcribe has
\* returned a text, and starts the playback of the reply only after
\* chat_gpt has returned: while the capture, transcribe or chat_gpt of the
\* turn is in progress no playback session of the turn exists.
C21_TranscribeThenChatThenPlayback ==
    /\ \A t \in Turns : t > turn => sess[t] = "none"
    /\ Called("chat_gpt") => (CalledBefore("transcribe", "chat_gpt") /\ utter # <<>>)
    /\ Called("speak_worker") => CalledBefore("chat_gpt", "speak_worker")
    /\ turn \in Turns =>
          /\ sess[turn] # "none" => Called("speak_worker")
          /\ mpc \in {"record", "recording", "transcribe", "think"}
                => sess[turn] = "none"

\* the reply of turn 1 is playing, after transcribe and chat_gpt
C21_Witness ==
    /\ turn = 1
    /\ sess[1] = "active"
    /\ calls = <<"transcribe", "log_request", "chat_gpt", "speak_worker",
                 "log_response", "analyze_and_log_async">>

\* the calls of main to the backend log and to the analytics
LogCalls == {"log_request", "log_response", "analyze_and_log_async"}

\* C22: the playback of the reply is started before any logging or
\* analytics call of the turn is made: every such call in the turn comes
\* after the start of the speak_worker, so that none stands between
\* transcribe and chat_gpt or between chat_gpt and the start of playback.
C22_PlaybackBeforeLogging ==
    \A i \in DOMAIN calls :
        calls[i] \in LogCalls => \E j \in 1..(i - 1) : calls[j] = "speak_worker"

\* C23: when the transcribe call of a turn is over without a text, by a
\* failure or by an empty result, main has passed the capture to
\* transcribe once, has made the "Could you repeat that?" alert, has
\* called neither chat_gpt nor a playback of the turn, and goes on with
\* the loop.
C23_FailedTranscriptionRepeats ==
    (Called("transcribe") /\ mpc # "transcribe" /\ utter = <<>>) =>
        /\ mpc \in {"mtone", "top"}
        /\ Called("_alert")
        /\ ~Called("chat_gpt")
        /\ sess[turn] = "none"
        /\ Cardinality({i \in DOMAIN calls : calls[i] = "transcribe"}) = 1

\* C24 as stated: the wait for playback never exceeds LISTEN_WAIT_SEC, and
\* with LISTEN_AFTER_TTS off there is no wait.
C24_WaitAtMostListenWait ==
    /\ ~FLess(listenWait, cwaited)
    /\ ~listenAfterTts => cwaited = FZero

\* C24: main leaves the wait for playback when the playback is over or
\* when the sum of its sleeps of 0.05 s, added in binary64, has reached
\* LISTEN_WAIT_SEC, whichever is first, even if the playback never
\* completes: the sleeps come to less than LISTEN_WAIT_SEC plus one poll;
\* with LISTEN_AFTER_TTS off main does not wait at all.
C24_WaitAtMostOnePollMore ==
    /\ FLess(cwaited, FAdd(listenWait, PollStep))
    /\ ~listenAfterTts => cwaited = FZero
    /\ mpc = "gap" =>
          \/ ~listenAfterTts
          \/ sess[turn] = "done"
          \/ ~FLess(cwaited, listenWait)

\* with LISTEN_WAIT_SEC = 0.4 main has left the wait with the playback
\* not over, after nine sleeps: more than 0.4 s
C24_Witness ==
    /\ listenWait = F0_4
    /\ mpc = "gap"
    /\ sess[turn] \in {"spawned", "active"}
    /\ FLess(listenWait, cwaited)

\* C25: a turn whose utterance has an exit keyword in it is followed by
\* the farewell and the end of the loop, with no further capture, and the
\* farewell is only made after such an utterance.
C25_ExitWordEndsLoop ==
    /\ (Called("speak_worker") /\ HasExitWord(utter))
          => mpc \in {"cooldown", "gap", "bye", "end"}
    /\ mpc = "bye" => HasExitWord(utter)

\* C26: once STOP_EVENT is set no watcher makes an alert: the network
\* monitors, which sleep a second between probes, announce neither
\* "offline" nor "back online" any more.
C26_NoAlertAfterStop ==
    [][STOP_EVENT => (offAlerts' <= offAlerts /\ backAlerts' <= backAlerts)]_vars

\* C27: while the coordinator has found the gate active at its last test
\* of it, it is at the head of its loop (or has left the loop on
\* STOP_EVENT) and does nothing but test the gate again: it makes no
\* capture and starts no transcription, chat call or playback.
C27_GateOnlyRepolls ==
    gated =>
        /\ mpc \in {"off", "top", "end"}
        /\ apc \in {"off", "top", "end"}
        /\ ~recording

C29_WriteFailureGoesOn ==
    (spc = "done" /\ streamEnd = "eos" /\ ~STOP_EVENT)
        => (buffer = 0 /\ written + dropped = received)

\* C30: with a prebuffer of 80 ms at 24000 Hz the threshold is 3840
\* bytes; whether 4000 bytes arrive in one response or in forty of 100,
\* playback is started only with at least 3840 bytes received, and while
\* the stream is open or once the 4000 bytes have arrived no write is made
\* with less.
C30_FirstWriteAfterPrebuffer ==
    /\ PrebufferBytes(prebufferMs) = 3840
    /\ started => received >= 3840
    /\ ((Writing \/ written + dropped > 0) /\ (streamEnd = "open" \/ received >= 4000))
          => (started /\ received >= 3840)

\* the forty responses of 100 bytes have arrived, playback was started at
\* the thirty-ninth, and the 4000 bytes have been written
C30_Witness ==
    /\ chunkSizes = {100}
    /\ nchunks = 40
    /\ started
    /\ written = 4000

\* C31: chat_gpt always returns a text, the reply or the apology, and
\* never raises: once transcribe has returned a text, main is never ended
\* by the chat call, and when that call is over the speak_worker of the
\* turn has been started with what it returned.
C31_ChatAlwaysReturnsText ==
    /\ reply \in {"none", "reply", "Sorry, something went wrong."}
    /\ utter # <<>> => mpc # "crashed"
    /\ (utter # <<>> /\ mpc # "think") =>
          /\ reply # "none"
          /\ Called("speak_worker")
          /\ sess[turn] # "none"

\* the completion failed, chat_gpt returned the apology and it is playing
C31_Witness ==
    /\ reply = "Sorry, something went wrong."
    /\ turn = 1
    /\ sess[1] = "active"

(***************************************************************************)
(* SpecDeadline: how streaming_speak comes to the deadline of its stream   *)
(* (AI_Chat.py 516-523 and 570-577).  The text the caller passed loses its *)
(* emojis, marks and doubled blanks; the deadline is WAILO_TTS_TIMEOUT_SEC *)
(* if the environment holds one and estimated_speech_secs of what is left  *)
(* of the text if not.                                                     *)
(* Durations are counted in ninths of a second, the unit in which          *)
(* len(text) / 9.0 + 4.0 is len(text) + 36.  Division, addition, min and   *)
(* max on doubles are monotone and 4.0, 12.0 and 45.0 are doubles, so the  *)
(* order of two such values is the order of the exact ones.                *)
(***************************************************************************)
\* the longest text that is passed
MaxTextLen == 400

\* how many characters of a text sanitize_tts_text may find to remove
Removable == {0, 1, 30}

\* the values of WAILO_TTS_TIMEOUT_SEC ("": not set)
TimeoutEnvs == {"", "5", "60"}

\* the constants of estimated_speech_secs
CharsPerSec == 9
OverheadSecs == 4
MinSecs == 12
MaxSecs == 45
FallbackSecs == 20

\* seconds as ninths of a second
Ninths(secs) == CharsPerSec * secs

\* float(tts_timeout_env), in ninths of a second
FloatOfEnv(env) == IF env = "5" THEN Ninths(5) ELSE Ninths(60)

Max(a, b) == IF a >= b THEN a ELSE b

\* len(sanitize_tts_text(text)) for a text of which gone characters go
SanitizedLen(len, gone) == len - gone

\* estimated_speech_secs without the upper clamp
EstimatedSpeechSecsNoMax(len) ==
    IF len < 0 THEN Ninths(FallbackSecs)
    ELSE Max(Ninths(MinSecs), len + Ninths(OverheadSecs))

\* estimated_speech_secs(text) for a text of len characters, in ninths of a
\* second; len < 0 stands for an argument without a length
EstimatedSpeechSecs(len) ==
    IF len < 0 THEN Ninths(FallbackSecs)
    ELSE Max(Ninths(MinSecs), Min(Ninths(MaxSecs), len + Ninths(OverheadSecs)))

\* streaming_speak is entered and sanitizes its text
SpeakSanitize ==
    /\ dpc = "idle"
    /\ \E len \in 0..MaxTextLen, gone \in Removable :
          /\ gone <= len
          /\ originalLen' = len
          /\ textLen' = SanitizedLen(len, gone)
    /\ dpc' = "sanitized"
    /\ UNCHANGED <<ttsTimeoutEnv, ttsTimeout, micVars, apiVars, bleVars>>
    /\ UNCHANGED <<flagVars, speakVars, sigVars, warnVars, mainVars, alertVars>>
    /\ UNCHANGED <<netVars, recVars, histVars, turnVars>>

\* it reads the environment and sets tts_timeout
SpeakComputeTimeout ==
    /\ dpc = "sanitized"
    /\ \E env \in TimeoutEnvs :
          /\ ttsTimeoutEnv' = env
          /\ ttsTimeout' = IF env # "" THEN FloatOfEnv(env)
                           ELSE EstimatedSpeechSecs(textLen)
    /\ dpc' = "set"
    /\ UNCHANGED <<originalLen, textLen, micVars, apiVars, bleVars>>
    /\ UNCHANGED <<flagVars, speakVars, sigVars, warnVars, mainVars, alertVars>>
    /\ UNCHANGED <<netVars, recVars, histVars, turnVars>>

InitDeadline ==
    /\ STOP_EVENT = FALSE
    /\ ACTIVE_TTS = FALSE
    /\ SpeakInit
    /\ chunkLimit = 0
    /\ speakInMain = FALSE
    /\ SigInit
    /\ WarnIdle
    /\ alertBeeps = TRUE
    /\ MainIdle
    /\ AlertsIdle
    /\ ExtIdle

NextDeadline ==
    \/ SpeakSanitize
    \/ SpeakComputeTimeout

SpecDeadline == InitDeadline /\ [][NextDeadline]_vars

\* C32 as stated: without an override the deadline of a call is
\* max(12, min(45, n/9 + 4)) seconds for n the length of the text the call
\* was given, hence between 12 and 45 seconds and non-decreasing in n.
C32_DeadlineFromReplyLength ==
    (dpc = "set" /\ ttsTimeoutEnv = "") =>
        /\ ttsTimeout = Max(Ninths(MinSecs),
                              Min(Ninths(MaxSecs), originalLen + Ninths(OverheadSecs)))
        /\ ttsTimeout >= Ninths(MinSecs)
        /\ ttsTimeout <= Ninths(MaxSecs)

\* C32, amended: the same with n the length of the text after
\* sanitize_tts_text, the text that is sent to the synthesis; a shorter
\* text of that kind never has the longer deadline.
C32_DeadlineFromSanitizedLength ==
    (dpc = "set" /\ ttsTimeoutEnv = "") =>
        /\ ttsTimeout = Max(Ninths(MinSecs),
                              Min(Ninths(MaxSecs), textLen + Ninths(OverheadSecs)))
        /\ ttsTimeout >= Ninths(MinSecs)
        /\ ttsTimeout <= Ninths(MaxSecs)
        /\ \A m \in 0..textLen : EstimatedSpeechSecs(m) <= ttsTimeout

\* a call whose text lost characters has a deadline strictly between the
\* clamps
C32_Witness ==
    /\ dpc = "set"
    /\ ttsTimeoutEnv = ""
    /\ textLen < originalLen
    /\ ttsTimeout > Ninths(MinSecs)
    /\ ttsTimeout < Ninths(MaxSecs)

(***************************************************************************)
(* SpecMicReady: the first capture of AI_Chat.main beside the              *)
(* mic_ready_worker thread main starts for it (AI_Chat.py 762-771).  Time  *)
(* is counted in frames of 30 ms: the stream takes micOpenTook frames to   *)
(* open and every s.read(chunk) of record() lasts one frame, so            *)
(* MIC_OPEN_WARN_SEC, three seconds, is over after 100 frames.             *)
(***************************************************************************)
\* 157: MIC_OPEN_WARN_SEC = float(os.getenv("WAILO_MIC_OPEN_WARN_SEC", "3"))
MIC_OPEN_WARN_SEC == 3

\* how long the opening may take: no time, or four and a half seconds
MicOpenChoices == {0, 150}

\* the frames since mic_ready_worker of turn t was started (768), as far
\* as the capture it belongs to bounds them; the time after that capture is
\* not followed
MicElapsed(t) ==
    IF t = turn /\ mpc = "record" THEN 0
    ELSE IF t = turn /\ mpc = "recording"
         THEN micOpenTook + rec.warm + rec.nread
         ELSE LimitUp(MIC_OPEN_WARN_SEC)

\* 765: time.sleep(MIC_OPEN_WARN_SEC) of the worker returns
MicReadyWake(t) ==
    /\ ~exited
    /\ rpc[t] = "sleep"
    /\ MicElapsed(t) >= LimitUp(MIC_OPEN_WARN_SEC)
    /\ rpc' = [rpc EXCEPT ![t] = "awake"]
    /\ UNCHANGED <<mpc, turn, sess, recording, cwaited, utterExit, firstMicAttempt,
                   noSpeechStreak, micCancel, cfgVars>>
    /\ UNCHANGED <<flagVars, speakVars, sigVars, warnVars, alertVars, extVars>>

\* 766-767: it tests STOP_EVENT and mic_ready_cancel, and nothing else,
\* and calls _alert("I'm ready.") when both are clear
MicReadyCheck(t) ==
    /\ ~exited
    /\ rpc[t] = "awake"
    /\ rpc' = [rpc EXCEPT ![t] = IF ~STOP_EVENT /\ ~micCancel[t]
                                 THEN "alerted" ELSE "done"]
    /\ UNCHANGED <<mpc, turn, sess, recording, cwaited, utterExit, firstMicAttempt,
                   noSpeechStreak, micCancel, cfgVars>>
    /\ UNCHANGED <<flagVars, speakVars, sigVars, warnVars, alertVars, extVars>>

MicReadyWakeStep == \E t \in Turns : MicReadyWake(t)

MicReadyCheckStep == \E t \in Turns : MicReadyCheck(t)

InitMicReady ==
    /\ STOP_EVENT = FALSE
    /\ ACTIVE_TTS = FALSE
    /\ SpeakInit
    /\ chunkLimit = 0
    /\ speakInMain = FALSE
    /\ SigInit
    /\ WarnIdle
    /\ alertBeeps = TRUE
    /\ AlertsIdle
    /\ NetIdle
    /\ DeadIdle
    /\ ApiIdle
    /\ BleIdle
    /\ HistIdle
    /\ TurnIdle
    /\ mpc = "start"
    /\ turn = 0
    /\ turnLimit = 1
    /\ sess = [k \in SessIds |-> "none"]
    /\ recording = FALSE
    /\ cwaited = FZero
    /\ utterExit = FALSE
    /\ firstMicAttempt = TRUE
    /\ noSpeechStreak = 0
    /\ rpc = [t \in Turns |-> "none"]
    /\ micCancel = [t \in Turns |-> FALSE]
    /\ listenAfterTts = TRUE
    /\ listenWait = LISTEN_WAIT_SEC
    /\ exitOnNoMic = FALSE
    /\ rec = RecOff
    /\ MIC_OPENED_EVENT = FALSE
    /\ micOpenTook \in MicOpenChoices

NextMicReady ==
    \/ NextRecord
    \/ MicReadyWakeStep
    \/ MicReadyCheckStep

SpecMicReady == InitMicReady /\ [][NextMicReady]_vars

\* C33: "I'm ready." is emitted only when the opening of the microphone
\* took longer than MIC_OPEN_WARN_SEC, never because a capture that opened
\* in time is still under way.
C33_NoReadyAlertAfterPromptOpen ==
    \A t \in Turns :
        rpc[t] = "alerted" => micOpenTook > LimitUp(MIC_OPEN_WARN_SEC)

(***************************************************************************)
(* SpecApi: one WailoAPI object (wailo_api.py 64-290) after its            *)
(* construction, and MaxApiCalls calls of _get or _post on it, one after   *)
(* the other, step by step.  The backend answers every request as it       *)
(* likes; the token may expire between two steps.                          *)
(***************************************************************************)
\* the calls that are followed
MaxApiCalls == 2

\* how a request of authenticate() and of _try_login() may end: a 201 with
\* a token, a 201 without one, "already exists" and then the same of the
\* login endpoint, another status, a timeout, another exception
AuthOutcomes ==
    {"token", "no_token", "rejected", "timeout", "error",
     "login_token", "login_no_token", "login_rejected", "login_timeout"}

\* how a request for the target may end: a response (200 with a JSON
\* object that holds an id, 200 with one that holds none, 200 with a body
\* that is not JSON under a JSON content type, 200 with another content
\* type, 401, 500) or an exception (a timeout, a connection error)
Responses == {"ok_id", "ok_noid", "ok_badjson", "ok_text", "401", "500"}

Exceptions == {"timeout", "connection"}

\* 131-213: authenticate() on an object with token tok and auth_failed
\* failed: the token, the flag and the value returned
Authenticate(tok, failed, creds, out) ==
    IF ~creds THEN [token |-> tok, failed |-> failed, ok |-> FALSE]
    ELSE IF out \in {"token", "login_token"}
         THEN [token |-> "valid", failed |-> failed, ok |-> TRUE]
    ELSE IF out \in {"no_token", "login_no_token"}
         THEN [token |-> "none", failed |-> failed, ok |-> FALSE]
    ELSE IF out \in {"rejected", "login_rejected"}
         THEN [token |-> tok, failed |-> failed, ok |-> FALSE]
    ELSE [token |-> tok, failed |-> TRUE, ok |-> FALSE]

\* the test of 248 and 274 without the flag
NeedsReauthAlways(r, failed) == r = "401"

\* 248, 274: r.status_code == 401 and not self.auth_failed
NeedsReauth(r, failed) == r = "401" /\ ~failed

\* 256, 283-287: what the call returns for the response r; r.json() of a
\* body that is not JSON raises inside the try and None is returned
Returned(kind, r) ==
    IF kind = "post" THEN (IF r = "ok_id" THEN "id" ELSE "None")
    ELSE (IF r \in {"ok_id", "ok_noid"} THEN "json" ELSE "None")

\* 235-238, 262-265, 312-325: _get or _post is entered
ApiEnter ==
    /\ qpc = "idle"
    /\ ncalls < MaxApiCalls
    /\ \E kind \in {"get", "post"} : qkind' = kind
    /\ qpc' = "refresh"
    /\ sent' = 0
    /\ reauthOk' = FALSE
    /\ status' = "none"
    /\ result' = "none"
    /\ UNCHANGED <<token, auth_failed, hasCreds, ncalls, authAfterFailed>>
    /\ UNCHANGED <<flagVars, speakVars, sigVars, warnVars, mainVars, alertVars>>
    /\ UNCHANGED <<netVars, recVars, deadVars, micVars, bleVars, histVars, turnVars>>

\* 227-234, 240, 266: _refresh_token_if_needed: nothing when auth_failed,
\* authenticate() when the token is not valid
ApiRefresh ==
    /\ qpc = "refresh"
    /\ IF auth_failed \/ token = "valid"
       THEN UNCHANGED <<token, auth_failed, authAfterFailed>>
       ELSE \E out \in AuthOutcomes :
               LET a == Authenticate(token, auth_failed, hasCreds, out)
               IN  /\ token' = a.token
                   /\ auth_failed' = a.failed
                   /\ authAfterFailed' = (authAfterFailed \/ auth_failed)
    /\ qpc' = "send"
    /\ UNCHANGED <<qkind, hasCreds, sent, reauthOk, status, result, ncalls>>
    /\ UNCHANGED <<flagVars, speakVars, sigVars, warnVars, mainVars, alertVars>>
    /\ UNCHANGED <<netVars, recVars, deadVars, micVars, bleVars, histVars, turnVars>>

\* the first request with the exception leaving the call
ApiSendUncaught ==
    /\ qpc = "send"
    /\ sent' = sent + 1
    /\ \/ \E r \in Responses :
             /\ status' = r
             /\ qpc' = IF NeedsReauth(r, auth_failed) THEN "reauth" ELSE "finish"
             /\ UNCHANGED result
       \/ \E x \in Exceptions :
             /\ status' = x
             /\ result' = "raised"
             /\ qpc' = "returned"
    /\ UNCHANGED <<qkind, token, auth_failed, hasCreds, reauthOk, ncalls,
                   authAfterFailed>>
    /\ UNCHANGED <<flagVars, speakVars, sigVars, warnVars, mainVars, alertVars>>
    /\ UNCHANGED <<netVars, recVars, deadVars, micVars, bleVars, histVars, turnVars>>

\* 241-248, 267-274, 257-259, 288-290: the first request for the target:
\* a response, or an exception that the except clause turns into None
ApiSend ==
    /\ qpc = "send"
    /\ sent' = sent + 1
    /\ \/ \E r \in Responses :
             /\ status' = r
             /\ qpc' = IF NeedsReauth(r, auth_failed) THEN "reauth" ELSE "finish"
             /\ UNCHANGED result
       \/ \E x \in Exceptions :
             /\ status' = x
             /\ result' = "None"
             /\ qpc' = "returned"
    /\ UNCHANGED <<qkind, token, auth_failed, hasCreds, reauthOk, ncalls,
                   authAfterFailed>>
    /\ UNCHANGED <<flagVars, speakVars, sigVars, warnVars, mainVars, alertVars>>
    /\ UNCHANGED <<netVars, recVars, deadVars, micVars, bleVars, histVars, turnVars>>

\* 249-250, 275-276: authenticate() after the 401
ApiReauth ==
    /\ qpc = "reauth"
    /\ \E out \in AuthOutcomes :
          LET a == Authenticate(token, auth_failed, hasCreds, out)
          IN  /\ token' = a.token
              /\ auth_failed' = a.failed
              /\ reauthOk' = a.ok
              /\ qpc' = IF a.ok THEN "resend" ELSE "finish"
    /\ authAfterFailed' = (authAfterFailed \/ auth_failed)
    /\ UNCHANGED <<qkind, hasCreds, sent, status, result, ncalls>>
    /\ UNCHANGED <<flagVars, speakVars, sigVars, warnVars, mainVars, alertVars>>
    /\ UNCHANGED <<netVars, recVars, deadVars, micVars, bleVars, histVars, turnVars>>

\* 251-254, 277-280: the one retry with the new token
ApiResend ==
    /\ qpc = "resend"
    /\ sent' = sent + 1
    /\ \/ \E r \in Responses :
             /\ status' = r
             /\ qpc' = "finish"
             /\ UNCHANGED result
       \/ \E x \in Exceptions :
             /\ status' = x
             /\ result' = "None"
             /\ qpc' = "returned"
    /\ UNCHANGED <<qkind, token, auth_failed, hasCreds, reauthOk, ncalls,
                   authAfterFailed>>
    /\ UNCHANGED <<flagVars, speakVars, sigVars, warnVars, mainVars, alertVars>>
    /\ UNCHANGED <<netVars, recVars, deadVars, micVars, bleVars, histVars, turnVars>>

\* 255-256, 282-287: the call returns what the response holds
ApiFinish ==
    /\ qpc = "finish"
    /\ result' = Returned(qkind, status)
    /\ qpc' = "returned"
    /\ UNCHANGED <<qkind, token, auth_failed, hasCreds, sent, reauthOk, status,
                   ncalls, authAfterFailed>>
    /\ UNCHANGED <<flagVars, speakVars, sigVars, warnVars, mainVars, alertVars>>
    /\ UNCHANGED <<netVars, recVars, deadVars, micVars, bleVars, histVars, turnVars>>

\* the caller has the value; the object is free for the next call
ApiNext ==
    /\ qpc = "returned"
    /\ result # "raised"
    /\ qpc' = "idle"
    /\ ncalls' = ncalls + 1
    /\ UNCHANGED <<qkind, token, auth_failed, hasCreds, sent, reauthOk, status,
                   result, authAfterFailed>>
    /\ UNCHANGED <<flagVars, speakVars, sigVars, warnVars, mainVars, alertVars>>
    /\ UNCHANGED <<netVars, recVars, deadVars, micVars, bleVars, histVars, turnVars>>

\* 222-225: time passes token_expires_at
ApiTokenExpires ==
    /\ token = "valid"
    /\ token' = "expired"
    /\ UNCHANGED <<qpc, qkind, auth_failed, hasCreds, sent, reauthOk, status,
                   result, ncalls, authAfterFailed>>
    /\ UNCHANGED <<flagVars, speakVars, sigVars, warnVars, mainVars, alertVars>>
    /\ UNCHANGED <<netVars, recVars, deadVars, micVars, bleVars, histVars, turnVars>>

\* 65-83: the object after __init__: without credentials, or with them and
\* after the authenticate() of 83
InitApi ==
    /\ STOP_EVENT = FALSE
    /\ ACTIVE_TTS = FALSE
    /\ SpeakInit
    /\ chunkLimit = 0
    /\ speakInMain = FALSE
    /\ SigInit
    /\ WarnIdle
    /\ alertBeeps = TRUE
    /\ MainIdle
    /\ AlertsIdle
    /\ NetIdle
    /\ rec = RecOff
    /\ DeadIdle
    /\ MicIdle
    /\ BleIdle
    /\ HistIdle
    /\ TurnIdle
    /\ qpc = "idle"
    /\ qkind = "none"
    /\ hasCreds \in BOOLEAN
    /\ \E out \in AuthOutcomes :
          LET a == Authenticate("none", FALSE, hasCreds, out)
          IN  token = a.token /\ auth_failed = a.failed
    /\ sent = 0
    /\ reauthOk = FALSE
    /\ status = "none"
    /\ result = "none"
    /\ ncalls = 0
    /\ authAfterFailed = FALSE

NextApi ==
    \/ ApiEnter
    \/ ApiRefresh
    \/ ApiSend
    \/ ApiReauth
    \/ ApiResend
    \/ ApiFinish
    \/ ApiNext
    \/ ApiTokenExpires

SpecApi == InitApi /\ [][NextApi]_vars

\* C34: log_request and log_response, which are _post, return an id or
\* None and never raise, whatever the backend does: a call that has returned
\* holds "id" or "None", and None on everything but a 200 with a JSON id.
C34_LoggingNeverRaises ==
    /\ result # "raised"
    /\ (qkind = "post" /\ qpc = "returned") =>
          /\ result \in {"id", "None"}
          /\ result = "id" => status = "ok_id"
          /\ status \in (Exceptions \cup {"401", "500", "ok_text", "ok_badjson"})
                => result = "None"

\* a _post that got a 401, failed to authenticate again and returned None
C34_Witness ==
    /\ qkind = "post"
    /\ qpc = "returned"
    /\ status = "401"
    /\ sent = 1
    /\ auth_failed
    /\ result = "None"

\* C37: one _get or _post sends the request for its target at most twice,
\* the second time only after a 401 and an authenticate() that returned
\* True; authenticate() is never entered once auth_failed is set; and
\* auth_failed, once set, stays set.
C37_BoundedAttempts ==
    /\ [](/\ sent <= 2
          /\ sent = 2 => reauthOk
          /\ reauthOk => sent >= 1
          /\ ~authAfterFailed)
    /\ [][auth_failed => auth_failed']_vars

\* the second call on the object sent its request twice
C37_Witness ==
    /\ ncalls = 1
    /\ qpc = "returned"
    /\ sent = 2
    /\ reauthOk

\* the bytes of the block that was taken off the buffer and is not written yet
InFlight == IF spc = "dwrite" THEN ChunkBytes ELSE 0

\* the call came to its end without a stop, a failed write or a stream error
CleanSession ==
    /\ spc = "done"
    /\ outcome = "completed"
    /\ streamEnd = "eos"
    /\ dropped = 0

\* C35: the writes take the bytes off the head of the buffer in the order
\* of their arrival: what was written or given up, what is in flight and
\* what is buffered make up what was received, so every write starts where
\* the one before it ended; a session that ends clean has written all it
\* received; and a write is a whole block of FRAMES_PER_BUF * 2 bytes unless
\* it empties the buffer after the end of the stream, hence is the last.
C35_WrittenIsReceived ==
    /\ [](/\ written + dropped + InFlight + buffer = received
          /\ CleanSession => (written = received /\ buffer = 0))
    /\ [][written' # written =>
             /\ written' > written
             /\ \/ written' - written = ChunkBytes
                \/ /\ written' - written < ChunkBytes
                   /\ buffer' = 0
                   /\ streamEnd' = "eos"]_vars

\* a clean session of more than two blocks whose last write was short
C35_Witness ==
    /\ CleanSession
    /\ nchunks = 2
    /\ received > 2 * ChunkBytes
    /\ received % ChunkBytes # 0
    /\ written = received

\* C36: a monitor announces "back online" only when it has announced
\* "offline" in the run of failed probes that the recovery ends.
C36_BackOnlineOnlyAfterOffline ==
    [][\A m \in Monitors :
          (npc[m] = "probing" /\ npc'[m] = "probe" /\ backAlerts' > backAlerts)
              => nannounced[m]]_vars

(***************************************************************************)
(* SpecBle: the token characteristic of the GATT server                    *)
(* (wailo_gatt_server.py 450-697) and a client that makes MaxTransfers     *)
(* transfers, one write after the other: a header, the N chunks it         *)
(* announces and, if the client sends one, the EOF marker.  A chunk is     *)
(* kept as its number in the transfer, a header that ends up among the     *)
(* chunks as 0.  The header is the short one, {"t":N}, or the long one,    *)
(* {"type":"token","total":N}, which has 26 characters or more.  Every run *)
(* of process_complete_token starts a Timer of two seconds for             *)
(* cleanup_and_exit; the writes of a transfer may all arrive before it     *)
(* fires.                                                                  *)
(***************************************************************************)
\* the transfers the client makes
MaxTransfers == 2

\* the most chunks a header announces
MaxTokenChunks == 3

\* the headers the client may send
HeaderKinds == {"short", "long"}

\* 507: the length under which a write is tried as a header or an EOF marker
SmallChunkLen == 20

\* len(chunk_data) of a header of the kind: {"t":N} has 7 characters for
\* N < 10, {"type":"token","total":N} has 26
HeaderLen(kind) == IF kind = "short" THEN 7 ELSE 26

\* 507-530: the write is taken as a header
IsHeader(kind) == HeaderLen(kind) < SmallChunkLen

\* 566: self.total_chunks and len(self.received_chunks) >= self.total_chunks
AllChunksIn(total, chunks) == total # -1 /\ total # 0 /\ Len(chunks) >= total

\* 578-583: complete_token: the chunks joined, or token_buffer, which is
\* never anything but ""
CompleteToken(chunks) == chunks

\* 562-568: a write that is taken as data: it is appended, and
\* process_complete_token runs if the count has reached total_chunks;
\* 574-692: every way through that function sets HANDOFF_COMPLETED and
\* starts the Timer
BleData(item) ==
    LET chunks == Append(received_chunks, item)
    IN  /\ received_chunks' = chunks
        /\ IF AllChunksIn(total_chunks, chunks)
           THEN /\ runs' = runs + 1
                /\ complete_token' = CompleteToken(chunks)
                /\ HANDOFF_COMPLETED' = TRUE
                /\ exitTimer' = TRUE
           ELSE UNCHANGED <<runs, complete_token, HANDOFF_COMPLETED, exitTimer>>
        /\ UNCHANGED total_chunks

\* the client starts a transfer
BleBegin ==
    /\ bpc = "serving"
    /\ xpos = -1
    /\ nxfers < MaxTransfers
    /\ \E kind \in HeaderKinds, n \in 1..MaxTokenChunks, eof \in BOOLEAN :
          xfer' = [hdr |-> kind, n |-> n, eof |-> eof]
    /\ xpos' = 0
    /\ runs' = 0
    /\ UNCHANGED <<bpc, nxfers, total_chunks, received_chunks, complete_token,
                   HANDOFF_COMPLETED, exitTimer>>
    /\ UNCHANGED <<flagVars, speakVars, sigVars, warnVars, mainVars, alertVars>>
    /\ UNCHANGED <<netVars, recVars, deadVars, micVars, apiVars, histVars, turnVars>>

\* 499-568: WriteValue of the header: one of fewer than 20 characters sets
\* total_chunks and empties received_chunks; a longer one is data
BleWriteHeader ==
    /\ bpc = "serving"
    /\ xpos = 0
    /\ xpos' = 1
    /\ IF IsHeader(xfer.hdr)
       THEN /\ total_chunks' = xfer.n
            /\ received_chunks' = <<>>
            /\ UNCHANGED <<runs, complete_token, HANDOFF_COMPLETED, exitTimer>>
       ELSE BleData(0)
    /\ UNCHANGED <<bpc, xfer, nxfers>>
    /\ UNCHANGED <<flagVars, speakVars, sigVars, warnVars, mainVars, alertVars>>
    /\ UNCHANGED <<netVars, recVars, deadVars, micVars, apiVars, histVars, turnVars>>

\* 499-568: WriteValue of the next chunk of the token
BleWriteChunk ==
    /\ bpc = "serving"
    /\ xpos >= 1
    /\ xpos <= xfer.n
    /\ xpos' = xpos + 1
    /\ BleData(xpos)
    /\ UNCHANGED <<bpc, xfer, nxfers>>
    /\ UNCHANGED <<flagVars, speakVars, sigVars, warnVars, mainVars, alertVars>>
    /\ UNCHANGED <<netVars, recVars, deadVars, micVars, apiVars, histVars, turnVars>>

\* 551-559: WriteValue of "__EOF__": process_complete_token runs on what
\* the characteristic holds
BleWriteEof ==
    /\ bpc = "serving"
    /\ xfer.eof
    /\ xpos = xfer.n + 1
    /\ xpos' = xpos + 1
    /\ runs' = runs + 1
    /\ complete_token' = CompleteToken(received_chunks)
    /\ HANDOFF_COMPLETED' = TRUE
    /\ exitTimer' = TRUE
    /\ UNCHANGED <<bpc, xfer, nxfers, total_chunks, received_chunks>>
    /\ UNCHANGED <<flagVars, speakVars, sigVars, warnVars, mainVars, alertVars>>
    /\ UNCHANGED <<netVars, recVars, deadVars, micVars, apiVars, histVars, turnVars>>

\* the client has made every write of the transfer
BleEnd ==
    /\ bpc = "serving"
    /\ xpos = xfer.n + 1 + (IF xfer.eof THEN 1 ELSE 0)
    /\ xpos' = -1
    /\ nxfers' = nxfers + 1
    /\ UNCHANGED <<bpc, xfer, total_chunks, received_chunks, runs, complete_token,
                   HANDOFF_COMPLETED, exitTimer>>
    /\ UNCHANGED <<flagVars, speakVars, sigVars, warnVars, mainVars, alertVars>>
    /\ UNCHANGED <<netVars, recVars, deadVars, micVars, apiVars, histVars, turnVars>>

\* 207-232, 633: the Timer fires and cleanup_and_exit stops the main loop
BleExit ==
    /\ bpc = "serving"
    /\ exitTimer
    /\ bpc' = "exited"
    /\ UNCHANGED <<xfer, xpos, nxfers, total_chunks, received_chunks, runs,
                   complete_token, HANDOFF_COMPLETED, exitTimer>>
    /\ UNCHANGED <<flagVars, speakVars, sigVars, warnVars, mainVars, alertVars>>
    /\ UNCHANGED <<netVars, recVars, deadVars, micVars, apiVars, histVars, turnVars>>

InitBle ==
    /\ STOP_EVENT = FALSE
    /\ ACTIVE_TTS = FALSE
    /\ SpeakInit
    /\ chunkLimit = 0
    /\ speakInMain = FALSE
    /\ SigInit
    /\ WarnIdle
    /\ alertBeeps = TRUE
    /\ MainIdle
    /\ AlertsIdle
    /\ ExtIdle

NextBle ==
    \/ BleBegin
    \/ BleWriteHeader
    \/ BleWriteChunk
    \/ BleWriteEof
    \/ BleEnd
    \/ BleExit

SpecBle == InitBle /\ [][NextBle]_vars

\* the chunks 1..n in their order
ChunksOf(n) == [i \in 1..n |-> i]

\* the client made every write of its transfer and the server took them all
XferOver ==
    /\ bpc = "serving"
    /\ xfer # NoXfer
    /\ xpos \in {-1, xfer.n + 1 + (IF xfer.eof THEN 1 ELSE 0)}

\* C38: in a transfer process_complete_token runs at most once, not before
\* the N announced chunks are in, on the N chunks of the transfer in their
\* order and nothing else; and it has run when the transfer is over.
C38_OneRunPerTransfer ==
    /\ runs <= 1
    /\ (xpos # -1 /\ runs >= 1) =>
          /\ xpos >= xfer.n + 1
          /\ complete_token = ChunksOf(xfer.n)
    /\ XferOver => runs = 1

====
